---- MODULE Spec2Model ----
(***************************************************************************)
(* Model of the supertonic-web text-to-speech orchestration:               *)
(*   src/src/lib/helper.ts, src/src/lib/ttsEngine.ts   TextToSpeech,       *)
(*                                                     chunkText           *)
(*   src/src/components/TTS.tsx                        TTS page            *)
(*   src/src/lib/voiceChatEngine.ts, src/src/App.tsx   voice chat          *)
(*                                                                         *)
(* Text is a sequence of one-character strings.  Times are integers in     *)
(* hundredths of a second, so that 0.3 s is 30 and a speed of 1.05 is 105. *)
(***************************************************************************)
EXTENDS Integers, Sequences, FiniteSets, TLC

\* ------------------------------------------------------------------ bounds
MaxTextLen == 5        \* longest text handed to chunkText in SpecChunk
MaxLimit == 3          \* largest maxLen handed to chunkText in SpecChunk
MaxParagraphs == 2     \* most paragraphs (chunks) in the text of one request
MaxStep == 2           \* largest totalStep a caller other than the chat passes
MaxWavLen == 2         \* longest waveform the vocoder returns for one chunk
MaxBatch == 2          \* largest batch dimension: of a style tensor, of a duration array
MaxLatentDim == 2      \* largest latentDim handed to sampleNoisyLatent
MaxSamples == 2        \* most samples of the enumerated inputs of writeWavFile
MaxCodePoints == 3     \* most code points in a text handed to UnicodeProcessor.call
MaxPushes == 3         \* most chunks the responses queue for speech in SpecApp
MaxRequests == 6       \* most chat requests made in SpecChat
MaxObjectLen == 5      \* longest JSON object of a streamed response
MaxObjects == 2        \* most objects and separators of a streamed response
MaxWords == 16         \* most words w of a response in SpecWords, before its tail
MaxDelivery == 17      \* most characters handed to one call of onChunk

\* ------------------------------------------------------- program constants
DefaultMaxLen == 300   \* chunkText(text, maxLen = 300)
PageSilence == 30      \* TTS.tsx: call(..., 0.3, cb)
ChatTotalStep == 5     \* voiceChatEngine.ts: call(text, style, 5, 1.05, 0.3)
ChatSpeed == 105
ChatSilence == 30
WordsPerChunk == 8     \* App.tsx: words.length >= 8, words.slice(0, 8)

\* ------------------------------------------------------------------ state
VARIABLES
  cText,      \* SpecChunk: the text argument of chunkText
  cLimit,     \* SpecChunk: the maxLen argument of chunkText
  cChunks,    \* SpecChunk: the chunks returned
  cPc,        \* SpecChunk: "input" before the call, "done" after it
  app,        \* the page hosting the engine: "tts" (TTS.tsx, helper.ts) or
              \* "chat" (App.tsx, voiceChatEngine.ts, ttsEngine.ts)
  initPc,     \* initialization: "start", "first", "fallback", "style", "ready", "failed"
  attempts,   \* the execution providers handed to loadTextToSpeech, in order
  loadLog,    \* the asset loads made, in order: [asset, attempt, ok, cause]
  engine,     \* textToSpeechRef.current / this.ttsEngine
  curStyle,   \* currentStyleRef.current / this.voiceStyle
  surfaced,   \* an initialization error was shown or thrown to the caller
  isLoading,  \* TTS.tsx: the state isLoading (the chat has none: FALSE)
  styleLoad,  \* TTS.tsx handleVoiceStyleChange: the load it awaits, [pc, id]
  voiceStylePath, \* TTS.tsx: the state voiceStylePath, the value the select shows
  pc,         \* call(): "idle", or the backend run it awaits: "dp", "textEnc", "est", "voc"
  req,        \* the arguments of the request in flight (or of the last one)
  textList,   \* call(): the chunks of the request
  chunkIdx,   \* call(): index of the chunk _infer is working on
  step,       \* _infer: the loop variable of the denoising loop
  duration,   \* _infer: the scaled duration array of the current chunk
  wavCat,     \* call(): the waveform accumulated so far
  durCat,     \* call(): the duration accumulated so far
  pending,    \* the backend run calls issued and not yet settled
  log,        \* every backend run call the request issued, in order
  outs,       \* what _infer returned for each finished chunk: [wav, duration]
  result,     \* what call() delivered to its caller
  wavOut,     \* the samples the caller handed to writeWavFile
  infer,      \* _infer: its locals that are tensors or backend outputs
  progress,   \* the calls made to the progress callback, in order
  pArgs,      \* SpecText: the indexer and the textList of UnicodeProcessor.call
  pOut,       \* SpecText: what it returned, with the processed texts
  pPc,        \* SpecText: "input" before the call, "done" after it
  lArgs,      \* SpecLatent: the arguments of sampleNoisyLatent
  lOut,       \* SpecLatent: what it returned
  lPc,        \* SpecLatent: "input" before the call, "done" after it
  wArgs,      \* SpecWav: the arguments of writeWavFile
  wBuffer,    \* SpecWav: the bytes of the buffer it returned
  wPc,        \* SpecWav: "input" before the call, "done" after it
  isGenerating, \* SpecApp, TTS.tsx: the state isGenerating
  audioQueue, \* SpecApp, App.tsx: audioQueueRef.current
  isPlaying,  \* SpecApp, App.tsx: isPlayingRef.current
  workers,    \* SpecApp, App.tsx: what each running processAudioQueue awaits, and
              \* for which chunk: [pc, chunk]
  speech,     \* SpecApp: the starts and ends of generateSpeech and playAudio in the
              \* voice chat, in order: [e, chunk, ok]
  apiKey,     \* VoiceChatEngine: this.apiKey is not empty
  conversationHistory, \* VoiceChatEngine: this.conversationHistory, [role, text]
  completed,  \* the exchanges completed since the last clearHistory: [user, assistant]
  asked,      \* the number of chat requests made; a request's number is its text
  gReq,       \* callGeminiAPI: the request awaiting its response, or 0
  sReq,       \* streamGeminiAPI: [pc, text, body, pos], body being the response
              \* and pos the number of its characters read
  parse,      \* streamGeminiAPI: its locals jsonBuffer, braceCount, inJson and
              \* accumulatedText
  chatLog,    \* streamGeminiAPI: the calls of onChunk and onComplete and the update
              \* of the history, in order: [e, text]
  stream,     \* SpecApp, App.tsx handleSpeechEnd: "idle", "streaming", "waiting"
  pushed,     \* SpecApp: the number of chunks the responses have queued so far
  inFlight,   \* SpecApp: the calls of generateSpeech that have not settled
  incoming,   \* SpecWords: the text of the response that was not streamed yet
  fullResponse, \* App.tsx handleSpeechEnd: its local fullResponse
  wordBuffer, \* App.tsx handleSpeechEnd: its local wordBuffer
  pushLog     \* SpecWords: the texts pushed on the audio queue for the response,
              \* in order, the i-th being the queue's chunk i: [text, at]

chunkVars == <<cText, cLimit, cChunks, cPc>>
initVars == <<app, initPc, attempts, loadLog, engine, curStyle, surfaced, isLoading,
              styleLoad, voiceStylePath>>
callVars == <<pc, req, textList, chunkIdx, step, duration, wavCat, durCat,
              pending, log, outs, result, wavOut, infer, progress>>
textVars == <<pArgs, pOut, pPc>>
latentVars == <<lArgs, lOut, lPc>>
wavVars == <<wArgs, wBuffer, wPc>>
appVars == <<isGenerating, audioQueue, isPlaying, workers, stream, pushed, inFlight, speech>>
chatVars == <<apiKey, conversationHistory, completed, asked, gReq, sReq, parse, chatLog>>
wordVars == <<incoming, fullResponse, wordBuffer, pushLog>>
fnVars == <<chunkVars, textVars, latentVars, wavVars, appVars, chatVars, wordVars>>
vars == <<fnVars, initVars, callVars>>

\* ------------------------------------------------------------ characters
Upper == {"A", "B", "C", "D", "E", "F", "G", "H", "I", "J", "K", "L", "M",
          "N", "O", "P", "Q", "R", "S", "T", "U", "V", "W", "X", "Y", "Z"}
Lower == {"a", "b", "c", "d", "e", "f", "g", "h", "i", "j", "k", "l", "m",
          "n", "o", "p", "q", "r", "s", "t", "u", "v", "w", "x", "y", "z"}
Digit == {"0", "1", "2", "3", "4", "5", "6", "7", "8", "9"}

\* \s of a JavaScript regular expression, and the characters trim() removes
IsSpace(c) == c \in {" ", "\n", "\t", "\r"}

\* \w of a JavaScript regular expression
IsWordChar(c) == c \in Upper \cup Lower \cup Digit \cup {"_"}

\* [.!?]
IsTerminator(c) == c \in {".", "!", "?"}

\* --------------------------------------------------------- String.trim()
RECURSIVE TrimLeft(_)
TrimLeft(s) ==
  IF s # <<>> /\ IsSpace(Head(s)) THEN TrimLeft(Tail(s)) ELSE s

RECURSIVE TrimRight(_)
TrimRight(s) ==
  IF s # <<>> /\ IsSpace(s[Len(s)]) THEN TrimRight(SubSeq(s, 1, Len(s) - 1)) ELSE s

Trim(s) == TrimRight(TrimLeft(s))

\* The last index e >= i such that s[i..e] is all whitespace (i itself is).
RECURSIVE RunEnd(_, _)
RunEnd(s, i) ==
  IF i < Len(s) /\ IsSpace(s[i + 1]) THEN RunEnd(s, i + 1) ELSE i

\* ---------------------------------------- text.trim().split(/\n\s*\n+/)
\* The end of the match of /\n\s*\n+/ that starts at i, or 0 when it does not
\* match there: s[i] is a newline and the whitespace run from i holds a later
\* newline; greedy matching ends the match at the last newline of that run.
ParagraphBreakEnd(s, i) ==
  IF s[i] # "\n" THEN 0
  ELSE LET later == {j \in (i + 1)..RunEnd(s, i) : s[j] = "\n"}
       IN  IF later = {} THEN 0 ELSE CHOOSE j \in later : \A k \in later : k <= j

RECURSIVE SplitParagraphsFrom(_, _, _)
SplitParagraphsFrom(s, st, i) ==
  IF i > Len(s) THEN <<SubSeq(s, st, Len(s))>>
  ELSE LET e == ParagraphBreakEnd(s, i)
       IN  IF e > 0
           THEN <<SubSeq(s, st, i - 1)>> \o SplitParagraphsFrom(s, e + 1, e + 1)
           ELSE SplitParagraphsFrom(s, st, i + 1)

SplitParagraphs(s) == SplitParagraphsFrom(s, 1, 1)

\* ----------------------------------------------- the sentence split regex
Abbreviations ==
  { <<"M", "r", ".">>, <<"M", "r", "s", ".">>, <<"M", "s", ".">>,
    <<"D", "r", ".">>, <<"P", "r", "o", "f", ".">>, <<"S", "r", ".">>,
    <<"J", "r", ".">>, <<"P", "h", ".", "D", ".">>, <<"e", "t", "c", ".">>,
    <<"e", ".", "g", ".">>, <<"i", ".", "e", ".">>, <<"v", "s", ".">>,
    <<"I", "n", "c", ".">>, <<"L", "t", "d", ".">>, <<"C", "o", ".">>,
    <<"C", "o", "r", "p", ".">>, <<"S", "t", ".">>, <<"A", "v", "e", ".">>,
    <<"B", "l", "v", "d", ".">> }

\* s[1..k] ends with w
EndsWith(s, k, w) ==
  /\ Len(w) <= k
  /\ SubSeq(s, k - Len(w) + 1, k) = w

\* (?<!Mr\.|Mrs\.|...) fails at the position after s[k]
EndsWithAbbreviation(s, k) == \E w \in Abbreviations : EndsWith(s, k, w)

\* (?<!\b[A-Z]\.) fails at the position after s[k]
EndsWithInitialAnywhere(s, k) ==
  /\ k >= 2
  /\ s[k] = "."
  /\ s[k - 1] \in Upper

EndsWithInitial(s, k) ==
  /\ k >= 2
  /\ s[k] = "."
  /\ s[k - 1] \in Upper
  /\ (k = 2 \/ ~IsWordChar(s[k - 2]))

\* The split regex matches at index i (the first character of the match).
IsSentenceBreak(s, i) ==
  /\ i > 1
  /\ IsSpace(s[i])
  /\ IsTerminator(s[i - 1])
  /\ ~EndsWithAbbreviation(s, i - 1)
  /\ ~EndsWithInitial(s, i - 1)

RECURSIVE SplitSentencesFrom(_, _, _)
SplitSentencesFrom(s, st, i) ==
  IF i > Len(s) THEN <<SubSeq(s, st, Len(s))>>
  ELSE IF IsSentenceBreak(s, i)
       THEN LET e == RunEnd(s, i)
            IN  <<SubSeq(s, st, i - 1)>> \o SplitSentencesFrom(s, e + 1, e + 1)
       ELSE SplitSentencesFrom(s, st, i + 1)

SplitSentences(p) == SplitSentencesFrom(p, 1, 1)

\* ------------------------------------------------------------- chunkText
\* The test of the inner loop: the sentence still fits the current chunk.
FitsNoSeparator(currentChunk, sentence, maxLen) ==
  Len(currentChunk) + Len(sentence) <= maxLen

FitsStrictly(currentChunk, sentence, maxLen) ==
  Len(currentChunk) + Len(sentence) + 1 < maxLen

Fits(currentChunk, sentence, maxLen) ==
  Len(currentChunk) + Len(sentence) + 1 <= maxLen

\* The inner loop over the sentences of one paragraph; acc is
\* [chunks, currentChunk].
RECURSIVE AccumulateSentencesNoSeparator(_, _, _)
AccumulateSentencesNoSeparator(sentences, acc, maxLen) ==
  IF sentences = <<>> THEN acc
  ELSE LET sentence == Head(sentences)
           cur == acc.currentChunk
           next ==
             IF Fits(cur, sentence, maxLen)
             THEN [chunks |-> acc.chunks, currentChunk |-> cur \o sentence]
             ELSE [chunks |->
                     IF cur # <<>> THEN Append(acc.chunks, Trim(cur)) ELSE acc.chunks,
                   currentChunk |-> sentence]
       IN  AccumulateSentencesNoSeparator(Tail(sentences), next, maxLen)

RECURSIVE AccumulateSentences(_, _, _)
AccumulateSentences(sentences, acc, maxLen) ==
  IF sentences = <<>> THEN acc
  ELSE LET sentence == Head(sentences)
           cur == acc.currentChunk
           next ==
             IF Fits(cur, sentence, maxLen)
             THEN [chunks |-> acc.chunks,
                   currentChunk |->
                     cur \o (IF cur # <<>> THEN <<" ">> ELSE <<>>) \o sentence]
             ELSE [chunks |->
                     IF cur # <<>> THEN Append(acc.chunks, Trim(cur)) ELSE acc.chunks,
                   currentChunk |-> sentence]
       IN  AccumulateSentences(Tail(sentences), next, maxLen)

\* The body of the paragraph loop: the chunks of one paragraph.
ParagraphChunksNoFlush(paragraph, maxLen) ==
  LET p == Trim(paragraph)
  IN  IF p = <<>> THEN <<>>
      ELSE AccumulateSentences(
             SplitSentences(p), [chunks |-> <<>>, currentChunk |-> <<>>], maxLen).chunks

ParagraphChunks(paragraph, maxLen) ==
  LET p == Trim(paragraph)
  IN  IF p = <<>> THEN <<>>
      ELSE LET acc == AccumulateSentences(
                        SplitSentences(p), [chunks |-> <<>>, currentChunk |-> <<>>], maxLen)
           IN  IF acc.currentChunk # <<>>
               THEN Append(acc.chunks, Trim(acc.currentChunk))
               ELSE acc.chunks

RECURSIVE ChunkParagraphs(_, _)
ChunkParagraphs(paragraphs, maxLen) ==
  IF paragraphs = <<>> THEN <<>>
  ELSE ParagraphChunks(Head(paragraphs), maxLen)
         \o ChunkParagraphs(Tail(paragraphs), maxLen)

chunkText(text, maxLen) ==
  ChunkParagraphs(
    SelectSeq(SplitParagraphs(Trim(text)), LAMBDA p : Trim(p) # <<>>), maxLen)

\* The sentences of a text, as chunkText cuts them.
RECURSIVE SentencesOfParagraphs(_)
SentencesOfParagraphs(paragraphs) ==
  IF paragraphs = <<>> THEN <<>>
  ELSE SplitSentences(Trim(Head(paragraphs)))
         \o SentencesOfParagraphs(Tail(paragraphs))

SentencesOf(text) ==
  SentencesOfParagraphs(
    SelectSeq(SplitParagraphs(Trim(text)), LAMBDA p : Trim(p) # <<>>))

\* ------------------------------------------------------------ the session
NoEngine == [provider |-> "none", attempt |-> 0, sampleRate |-> 0]
NoStyle == [id |-> "none", ttlB |-> 0, dpB |-> 0]
NoWav == <<"none">>
NoRequest ==
  [caller |-> "none", style |-> NoStyle, totalStep |-> 0, speed |-> 100,
   silence |-> 0, engine |-> NoEngine, callback |-> FALSE,
   text |-> [type |-> "string", chars |-> <<>>]]
NoInfer ==
  [textIds |-> <<>>, textMask |-> <<>>, dpOut |-> <<>>, textEmb |-> <<>>, xt |-> <<>>,
   latentMask |-> <<>>]
NoResult == [kind |-> "none", wav |-> NoWav, duration |-> NoWav]

SampleRates == {2, 5}           \* cfgs.ae.sample_rate, in samples per second
Speeds == {100, 200}            \* speed, in hundredths
Silences == {0, 30, 50}         \* silenceDuration, in hundredths of a second
DpOutputs == {42, 84}           \* the duration predictor's output, hundredths of a second

\* loadVoiceStyle(paths): both tensors get the batch dimension paths.length
LoadedStyle(id, bsz) == [id |-> id, ttlB |-> bsz, dpB |-> bsz]

\* new Style(ttlTensor, dpTensor): any two tensors
Styles == [id : {"X"}, ttlB : 1..MaxBatch, dpB : 1..MaxBatch]

\* No request was made yet.
CallIdle ==
  /\ pc = "idle"
  /\ req = NoRequest
  /\ textList = <<>>
  /\ chunkIdx = 0
  /\ step = 0
  /\ duration = <<>>
  /\ wavCat = <<>>
  /\ durCat = 0
  /\ pending = {}
  /\ log = <<>>
  /\ outs = <<>>
  /\ result = NoResult
  /\ wavOut = NoWav
  /\ infer = NoInfer
  /\ progress = <<>>

\* handleVoiceStyleChange is not running.
NoStyleLoad == [pc |-> "idle", id |-> "none"]

\* TTS.tsx DEFAULT_VOICE_STYLE_PATH
DefaultVoiceStyle == "M1"

\* streamGeminiAPI: let accumulatedText = '', jsonBuffer = '', braceCount = 0,
\* inJson = false
NoParse == [jsonBuffer |-> <<>>, braceCount |-> 0, inJson |-> FALSE, accumulatedText |-> <<>>]

NoStream == [pc |-> "idle", text |-> 0, body |-> <<>>, pos |-> 0]

\* Nothing was asked yet.
ChatIdle ==
  /\ conversationHistory = <<>>
  /\ completed = <<>>
  /\ asked = 0
  /\ gReq = 0
  /\ sReq = NoStream
  /\ parse = NoParse
  /\ chatLog = <<>>

\* No response is being split into chunks of words.
WordIdle ==
  /\ incoming = <<>>
  /\ fullResponse = <<>>
  /\ wordBuffer = <<>>
  /\ pushLog = <<>>

\* Nothing was clicked, said or answered yet.
AppIdle ==
  /\ ChatIdle
  /\ WordIdle
  /\ isGenerating = FALSE
  /\ audioQueue = <<>>
  /\ isPlaying = FALSE
  /\ workers = <<>>
  /\ stream = "idle"
  /\ pushed = 0
  /\ inFlight = 0
  /\ speech = <<>>

\* The page was mounted and nothing is loaded yet.
SessionAt(a) ==
  /\ AppIdle
  /\ apiKey = TRUE
  /\ isLoading = (a = "tts")
  /\ styleLoad = NoStyleLoad
  /\ voiceStylePath = DefaultVoiceStyle
  /\ app = a
  /\ initPc = "start"
  /\ attempts = <<>>
  /\ loadLog = <<>>
  /\ engine = NoEngine
  /\ curStyle = NoStyle
  /\ surfaced = FALSE
  /\ CallIdle

\* The functions checked on their own were not called.
ChunkIdle ==
  /\ cText = <<>>
  /\ cLimit = 1
  /\ cChunks = <<>>
  /\ cPc = "input"

\* None of the functions checked on their own was called.
TextIdle ==
  /\ pArgs = <<>>
  /\ pOut = <<>>
  /\ pPc = "input"

LatentIdle ==
  /\ lArgs = <<>>
  /\ lOut = <<>>
  /\ lPc = "input"

WavIdle ==
  /\ wArgs = <<>>
  /\ wBuffer = <<>>
  /\ wPc = "input"

\* --------------------------------------------------------- initialization
\* The order in which loadTextToSpeech loads its assets: helper.ts loads the
\* configuration, the four models, then the vocabulary; ttsEngine.ts loads the
\* configuration, the vocabulary, then the four models.
LoadOrder(a) ==
  IF a = "tts" THEN <<"cfg", "models", "vocab">> ELSE <<"cfg", "vocab", "models">>

\* How one loadTextToSpeech can end: "ok", the fetch or parse of an asset
\* failing, or the session creation failing because the provider is missing.
LoadOutcomes == {"ok", "cfg", "vocab", "models", "backend"}

\* The stage of LoadOrder at which an outcome stops the load (0: none).
FailStage(a, outcome) ==
  IF outcome = "ok" THEN 0
  ELSE LET asset == IF outcome = "backend" THEN "models" ELSE outcome
       IN  CHOOSE i \in 1..3 : LoadOrder(a)[i] = asset

\* The loads one loadTextToSpeech makes, up to and including a failing one.
LoadsOf(a, n, outcome) ==
  LET last == IF outcome = "ok" THEN 3 ELSE FailStage(a, outcome)
  IN  [i \in 1..last |->
        [asset |-> LoadOrder(a)[i], attempt |-> n,
         ok |-> (i # FailStage(a, outcome)),
         cause |-> IF i # FailStage(a, outcome) THEN "none"
                   ELSE IF outcome = "backend" THEN "backend" ELSE "asset"]]

\* The provider of the attempt made after n failed ones.
ProviderAlwaysWebgpu(n) == "webgpu"

ProviderOfAttempt(n) == IF n = 0 THEN "webgpu" ELSE "wasm"

\* initializeModels / initializeTTS up to its first await: the webgpu attempt.
StartInit ==
  /\ initPc = "start"
  /\ initPc' = "first"
  /\ attempts' = <<ProviderOfAttempt(0)>>
  /\ UNCHANGED <<app, loadLog, engine, curStyle, surfaced, isLoading, styleLoad,
                 voiceStylePath, fnVars, callVars>>

\* The first loadTextToSpeech settles.
FirstAttemptSettles(outcome, sr) ==
  /\ initPc = "first"
  /\ loadLog' = loadLog \o LoadsOf(app, 1, outcome)
  /\ IF outcome = "ok"
     THEN /\ engine' = [provider |-> attempts[1], attempt |-> 1, sampleRate |-> sr]
          /\ initPc' = "style"
          /\ UNCHANGED attempts
     ELSE /\ initPc' = "fallback"
          /\ attempts' = Append(attempts, ProviderOfAttempt(1))
          /\ UNCHANGED engine
  /\ UNCHANGED surfaced
  /\ UNCHANGED <<app, curStyle, isLoading, styleLoad, voiceStylePath, fnVars, callVars>>

\* The fallback loadTextToSpeech settles; a failure reaches the outer catch.
FallbackAttemptSettles(outcome, sr) ==
  /\ initPc = "fallback"
  /\ loadLog' = loadLog \o LoadsOf(app, 2, outcome)
  /\ IF outcome = "ok"
     THEN /\ engine' = [provider |-> attempts[2], attempt |-> 2, sampleRate |-> sr]
          /\ initPc' = "style"
          /\ UNCHANGED <<surfaced, isLoading>>
     ELSE /\ initPc' = "failed"
          /\ surfaced' = TRUE
          /\ isLoading' = FALSE
          /\ UNCHANGED engine
  /\ UNCHANGED <<app, attempts, curStyle, styleLoad, voiceStylePath, fnVars, callVars>>

\* loadVoiceStyle(['assets/voice_styles/M1.json']) settles.
DefaultStyleSettles(ok) ==
  /\ initPc = "style"
  /\ loadLog' = Append(loadLog,
                  [asset |-> "style", attempt |-> Len(attempts), ok |-> ok,
                   cause |-> IF ok THEN "none" ELSE "asset"])
  /\ IF ok
     THEN /\ curStyle' = LoadedStyle("M1", 1)
          /\ initPc' = "ready"
          /\ UNCHANGED surfaced
     ELSE /\ initPc' = "failed"
          /\ surfaced' = TRUE
          /\ UNCHANGED curStyle
  /\ isLoading' = FALSE
  /\ UNCHANGED <<app, attempts, engine, styleLoad, voiceStylePath, fnVars, callVars>>

\* ------------------------------------------------- SpecChunk: chunkText
ChunkAlphabet == {"o", "C", ".", " ", "\n"}

TextsUpTo(n) == UNION {[1..k -> ChunkAlphabet] : k \in 0..n}

\* "Hello there. How are you?"
HelloText ==
  <<"H", "e", "l", "l", "o", " ", "t", "h", "e", "r", "e", ".", " ",
    "H", "o", "w", " ", "a", "r", "e", " ", "y", "o", "u", "?">>

\* The calls of chunkText followed: every short text with every small limit,
\* and the example text with the default limit.
ChunkInputs ==
  (TextsUpTo(MaxTextLen) \X (1..MaxLimit)) \cup {<<HelloText, DefaultMaxLen>>}

InitChunk ==
  /\ \E input \in ChunkInputs : cText = input[1] /\ cLimit = input[2]
  /\ cChunks = <<>>
  /\ cPc = "input"
  /\ TextIdle
  /\ LatentIdle
  /\ WavIdle
  /\ SessionAt("tts")

RunChunkText ==
  /\ cPc = "input"
  /\ cChunks' = chunkText(cText, cLimit)
  /\ cPc' = "done"
  /\ UNCHANGED <<cText, cLimit, textVars, latentVars, wavVars, initVars, callVars, appVars,
                 chatVars, wordVars>>

NextChunk == RunChunkText

SpecChunk == InitChunk /\ [][NextChunk]_vars

\* C10: every chunk chunkText returns is at most maxLen long, except a chunk
\* that is exactly one sentence of the text, itself longer than maxLen.
ChunkWithinLimitOrLoneOversized ==
  cPc = "done" =>
    \A i \in 1..Len(cChunks) :
      \/ Len(cChunks[i]) <= cLimit
      \/ \E j \in 1..Len(SentencesOf(cText)) :
           /\ SentencesOf(cText)[j] = cChunks[i]
           /\ Len(SentencesOf(cText)[j]) > cLimit

\* C10 witness: a text of several sentences whose chunks include an oversized
\* lone sentence next to a chunk within the limit.
ChunkOversizedWitness ==
  /\ cPc = "done"
  /\ Len(SentencesOf(cText)) >= 2
  /\ \E i \in 1..Len(cChunks) : Len(cChunks[i]) > cLimit
  /\ \E i \in 1..Len(cChunks) : Len(cChunks[i]) <= cLimit

\* Sentences joined by single spaces, as chunkText joins them.
RECURSIVE JoinSentences(_)
JoinSentences(ss) ==
  IF ss = <<>> THEN <<>>
  ELSE IF Len(ss) = 1 THEN ss[1]
  ELSE ss[1] \o <<" ">> \o JoinSentences(Tail(ss))

\* The chunks are the sentences ss cut into consecutive non-empty groups, each
\* group joined by single spaces.
RECURSIVE GroupsOf(_, _)
GroupsOf(chunks, ss) ==
  IF chunks = <<>> THEN ss = <<>>
  ELSE \E n \in 1..Len(ss) :
         /\ Head(chunks) = JoinSentences(SubSeq(ss, 1, n))
         /\ GroupsOf(Tail(chunks), SubSeq(ss, n + 1, Len(ss)))

\* C11: read in chunk order and without the single spaces that join them, the
\* sentences in the chunks are exactly the sentences of the text in their
\* order: none dropped, duplicated, reordered or altered.
ChunksKeepSentences ==
  cPc = "done" => GroupsOf(cChunks, SentencesOf(cText))

\* C11 witness: three sentences or more in two chunks or more, one of them
\* joining sentences.
ChunksKeepSentencesWitness ==
  /\ cPc = "done"
  /\ Len(cChunks) >= 2
  /\ Len(SentencesOf(cText)) > Len(cChunks)

\* The chunks occur in the text as they are, in order, without overlap.
RECURSIVE OccurInOrder(_, _, _)
OccurInOrder(chunks, text, from) ==
  IF chunks = <<>> THEN TRUE
  ELSE LET n == Len(Head(chunks))
       IN  \E a \in from..(Len(text) - n + 1) :
             /\ SubSeq(text, a, a + n - 1) = Head(chunks)
             /\ OccurInOrder(Tail(chunks), text, a + n)

\* C12 as stated: every chunk is a contiguous substring of the text, and the
\* chunks occur in it in the order returned without overlapping.
ChunksAreSubstrings ==
  cPc = "done" => OccurInOrder(cChunks, cText, 1)

\* A stretch of the text with every whitespace run that separates two of its
\* sentences replaced by one space.
Respaced(s) == JoinSentences(SplitSentences(s))

RECURSIVE OccurRespacedInOrder(_, _, _)
OccurRespacedInOrder(chunks, text, from) ==
  IF chunks = <<>> THEN TRUE
  ELSE \E a \in from..Len(text) : \E b \in a..Len(text) :
         /\ Respaced(SubSeq(text, a, b)) = Head(chunks)
         /\ OccurRespacedInOrder(Tail(chunks), text, b + 1)

\* C12 amended: every chunk reproduces a contiguous stretch of the text
\* exactly, except that each whitespace run separating two sentences of the
\* chunk is replaced by one space; the stretches occur in the text in the order
\* returned without overlapping.
ChunksAreRespacedStretches ==
  cPc = "done" => OccurRespacedInOrder(cChunks, cText, 1)

\* C12 witness: a chunk joining two sentences that is no substring of the text.
ChunkRespacedWitness ==
  /\ cPc = "done"
  /\ Len(cChunks) = 1
  /\ Len(SentencesOf(cText)) = 2
  /\ ~OccurInOrder(cChunks, cText, 1)

\* --------------------------------------------- UnicodeProcessor: characters
\* A text is a sequence of UTF-16 code units, as a JavaScript string is.  A
\* printable ASCII character stands for itself (the grave accent is "<60>");
\* any other code unit is written "<hex>".  A code point above U+FFFF is a high and a low surrogate.
Ascii ==
  <<" ", "!", "\"", "#", "$", "%", "&", "'", "(", ")", "*", "+", ",", "-", ".", "/",
    "0", "1", "2", "3", "4", "5", "6", "7", "8", "9", ":", ";", "<", "=", ">", "?",
    "@", "A", "B", "C", "D", "E", "F", "G", "H", "I", "J", "K", "L", "M", "N", "O",
    "P", "Q", "R", "S", "T", "U", "V", "W", "X", "Y", "Z", "[", "\\", "]", "^", "_",
    "<60>", "a", "b", "c", "d", "e", "f", "g", "h", "i", "j", "k", "l", "m", "n", "o",
    "p", "q", "r", "s", "t", "u", "v", "w", "x", "y", "z", "{", "|", "}", "~">>

\* The other code units of the model, with their values.
NamedUnits ==
  { <<"\t", 9>>, <<"\n", 10>>, <<"\r", 13>>, <<"<A9>", 169>>, <<"<AF>", 175>>,
    <<"<B4>", 180>>, <<"<BB>", 187>>, <<"<0301>", 769>>, <<"<0304>", 772>>,
    <<"<0308>", 776>>, <<"<2010>", 8208>>, <<"<2011>", 8209>>, <<"<2013>", 8211>>,
    <<"<2014>", 8212>>, <<"<2018>", 8216>>, <<"<2019>", 8217>>, <<"<201C>", 8220>>,
    <<"<201D>", 8221>>, <<"<2026>", 8230>>, <<"<203A>", 8250>>, <<"<2190>", 8592>>,
    <<"<2192>", 8594>>, <<"<2600>", 9728>>, <<"<2606>", 9734>>, <<"<2661>", 9825>>,
    <<"<2665>", 9829>>, <<"<3002>", 12290>>, <<"<D83D>", 55357>>, <<"<D840>", 55360>>,
    <<"<DC00>", 56320>>, <<"<DE00>", 56832>> }

\* string.charCodeAt: the value of a code unit
UnitCode(c) ==
  IF \E i \in 1..Len(Ascii) : Ascii[i] = c
  THEN 31 + (CHOOSE i \in 1..Len(Ascii) : Ascii[i] = c)
  ELSE (CHOOSE e \in NamedUnits : e[1] = c)[2]

IsHighSurrogate(c) == c \in {"<D83D>", "<D840>"}

IsLowSurrogate(c) == c \in {"<DC00>", "<DE00>"}

\* s[j], s[j + 1] is a surrogate pair
IsPairAt(s, j) ==
  /\ j < Len(s)
  /\ IsHighSurrogate(s[j])
  /\ IsLowSurrogate(s[j + 1])

\* The code point of a surrogate pair.
PairCode(hi, lo) == 65536 + (UnitCode(hi) - 55296) * 1024 + (UnitCode(lo) - 56320)

\* string.codePointAt(j), j counted from 1
codePointAt(s, j) ==
  IF IsPairAt(s, j) THEN PairCode(s[j], s[j + 1]) ELSE UnitCode(s[j])

\* ------------------------------------------------------- preprocessText
\* text.normalize('NFKD'), on the code units of the model: the characters with
\* a decomposition are the ellipsis, the macron, the acute accent, the
\* non-breaking hyphen; every other one is its own normal form.
NfkdOf(c) ==
  CASE c = "<2026>" -> <<".", ".", ".">>
    [] c = "<AF>" -> <<" ", "<0304>">>
    [] c = "<B4>" -> <<" ", "<0301>">>
    [] c = "<2011>" -> <<"<2010>">>
    [] OTHER -> <<c>>

RECURSIVE Nfkd(_)
Nfkd(s) == IF s = <<>> THEN <<>> ELSE NfkdOf(Head(s)) \o Nfkd(Tail(s))

\* The ranges of emojiPattern.
EmojiRanges ==
  { <<128512, 128591>>, <<127744, 128511>>, <<128640, 128767>>, <<128768, 128895>>,
    <<128896, 129023>>, <<129024, 129279>>, <<129280, 129535>>, <<129536, 129647>>,
    <<129648, 129791>>, <<9728, 9983>>, <<9984, 10175>>, <<127462, 127487>> }

IsEmojiCode(cp) == \E r \in EmojiRanges : r[1] <= cp /\ cp <= r[2]

\* text.replace(emojiPattern, ''): the pattern has the u flag, so a surrogate
\* pair is matched as one code point.
RECURSIVE RemoveEmojiFrom(_, _)
RemoveEmojiFrom(s, j) ==
  IF j > Len(s) THEN <<>>
  ELSE IF IsPairAt(s, j)
       THEN (IF IsEmojiCode(PairCode(s[j], s[j + 1])) THEN <<>> ELSE <<s[j], s[j + 1]>>)
              \o RemoveEmojiFrom(s, j + 2)
       ELSE (IF IsEmojiCode(UnitCode(s[j])) THEN <<>> ELSE <<s[j]>>)
              \o RemoveEmojiFrom(s, j + 1)

RemoveEmoji(s) == RemoveEmojiFrom(s, 1)

\* The table replacements.  Every key is one code unit and no value is a key,
\* so the replaceAll calls in sequence are one map over the code units.
ReplacementOf(c) ==
  CASE c \in {"<2013>", "<2011>", "<2014>"} -> "-"
    [] c \in {"<AF>", "_", "[", "]", "|", "/", "#", "<2192>", "<2190>"} -> " "
    [] c \in {"<201C>", "<201D>"} -> "\""
    [] c \in {"<2018>", "<2019>", "<B4>", "<60>"} -> "'"
    [] OTHER -> c

ReplaceTable(s) == [i \in 1..Len(s) |-> ReplacementOf(s[i])]

\* The combining marks of the second replace.
Diacritics ==
  {"<0302>", "<0303>", "<0304>", "<0305>", "<0306>", "<0307>", "<0308>", "<030A>",
   "<030B>", "<030C>", "<0327>", "<0328>", "<0329>", "<032A>", "<032B>", "<032C>",
   "<032D>", "<032E>", "<032F>"}

\* /[♥☆♡©\\]/g
SymbolsNoBackslash == {"<2665>", "<2606>", "<2661>", "<A9>"}

Symbols == {"<2665>", "<2606>", "<2661>", "<A9>", "\\"}

RemoveUnits(s, set) == SelectSeq(s, LAMBDA c : c \notin set)

\* s starts with pat
StartsWith(s, pat) == Len(pat) <= Len(s) /\ SubSeq(s, 1, Len(pat)) = pat

\* text.replaceAll(pat, rep), and text.replace(/pat/g, rep) for a literal pat:
\* the matches are taken from the left and do not overlap.
RECURSIVE ReplaceAll(_, _, _)
ReplaceAll(s, pat, rep) ==
  IF s = <<>> THEN <<>>
  ELSE IF StartsWith(s, pat)
       THEN rep \o ReplaceAll(SubSeq(s, Len(pat) + 1, Len(s)), pat, rep)
       ELSE <<Head(s)>> \o ReplaceAll(Tail(s), pat, rep)

\* exprReplacements, in the order of the object's keys
ReplaceExpressions(s) ==
  LET s1 == ReplaceAll(s, <<"@">>, <<" ", "a", "t", " ">>)
      s2 == ReplaceAll(s1, <<"e", ".", "g", ".", ",">>,
                       <<"f", "o", "r", " ", "e", "x", "a", "m", "p", "l", "e", ",", " ">>)
  IN  ReplaceAll(s2, <<"i", ".", "e", ".", ",">>,
                 <<"t", "h", "a", "t", " ", "i", "s", ",", " ">>)

\* The seven replacements of a space before a punctuation mark, in order.
SpacedMarks == <<",", ".", "!", "?", ";", ":", "'">>

RECURSIVE RemoveSpaceBefore(_, _)
RemoveSpaceBefore(s, marks) ==
  IF marks = <<>> THEN s
  ELSE RemoveSpaceBefore(ReplaceAll(s, <<" ", Head(marks)>>, <<Head(marks)>>), Tail(marks))

\* text.includes(pat)
Includes(s, pat) == \E i \in 1..(Len(s) - Len(pat) + 1) : SubSeq(s, i, i + Len(pat) - 1) = pat

\* text.replace(pat, rep) for a string pat: the first occurrence only
RECURSIVE ReplaceFirst(_, _, _)
ReplaceFirst(s, pat, rep) ==
  IF s = <<>> THEN <<>>
  ELSE IF StartsWith(s, pat) THEN rep \o SubSeq(s, Len(pat) + 1, Len(s))
  ELSE <<Head(s)>> \o ReplaceFirst(Tail(s), pat, rep)

\* while (text.includes(qq)) text = text.replace(qq, q)
RECURSIVE CollapseDoubled(_, _)
CollapseDoubled(s, q) ==
  IF Includes(s, <<q, q>>) THEN CollapseDoubled(ReplaceFirst(s, <<q, q>>, <<q>>), q) ELSE s

\* text.replace(/\s+/g, ' ')
RECURSIVE CollapseWhitespaceFrom(_, _)
CollapseWhitespaceFrom(s, j) ==
  IF j > Len(s) THEN <<>>
  ELSE IF IsSpace(s[j]) THEN <<" ">> \o CollapseWhitespaceFrom(s, RunEnd(s, j) + 1)
  ELSE <<s[j]>> \o CollapseWhitespaceFrom(s, j + 1)

CollapseWhitespace(s) == CollapseWhitespaceFrom(s, 1)

\* The character class of the final test.
ClosingPunctuationNoQuestion ==
  {".", "!", ";", ":", ",", "'", "\"", ")", "]", "}", "<2026>", "<3002>",
   "<300D>", "<300F>", "<3011>", "<3009>", "<300B>", "<203A>", "<BB>"}

ClosingPunctuation ==
  {".", "!", "?", ";", ":", ",", "'", "\"", ")", "]", "}", "<2026>", "<3002>",
   "<300D>", "<300F>", "<3011>", "<3009>", "<300B>", "<203A>", "<BB>"}

\* /[...]$/.test(text)
EndsInClosing(s) == s # <<>> /\ s[Len(s)] \in ClosingPunctuation

\* preprocessText up to the final test.
BeforeFinalPeriod(text) ==
  LET s1 == RemoveEmoji(Nfkd(text))
      s2 == RemoveUnits(RemoveUnits(ReplaceTable(s1), Diacritics), Symbols)
      s3 == RemoveSpaceBefore(ReplaceExpressions(s2), SpacedMarks)
      s4 == CollapseDoubled(CollapseDoubled(CollapseDoubled(s3, "\""), "'"), "<60>")
  IN  Trim(CollapseWhitespace(s4))

\* if (!/[...]$/.test(text)) text += '.'
AppendPeriodUnlessEmpty(s) ==
  IF s = <<>> \/ EndsInClosing(s) THEN s ELSE s \o <<".">>

AppendPeriod(s) == IF EndsInClosing(s) THEN s ELSE s \o <<".">>

preprocessText(text) == AppendPeriod(BeforeFinalPeriod(text))

\* ------------------------------------------------- UnicodeProcessor.call
\* this.indexer: the vocabulary table is an asset that is not part of the
\* sources; the model gives it a length and distinct positive entries.
IndexerLengths == {128, 65536}

IndexerEntry(cp) == cp + 1

MaxOf(ns) == CHOOSE n \in {ns[i] : i \in 1..Len(ns)} : \A i \in 1..Len(ns) : ns[i] <= n

MinOf2(a, b) == IF a <= b THEN a ELSE b

\* lengthToMask(lengths, maxLen), of UnicodeProcessor and of TextToSpeech; a
\* maxLen of 0 is falsy
lengthToMaskOneMore(lengths, maxLen) ==
  LET actualMaxLen == IF maxLen # 0 THEN maxLen ELSE MaxOf(lengths)
  IN  [i \in 1..Len(lengths) |->
        <<[j \in 1..actualMaxLen |->
            IF j <= MinOf2(lengths[i] + 1, actualMaxLen) THEN 1 ELSE 0]>>]

lengthToMask(lengths, maxLen) ==
  LET actualMaxLen == IF maxLen # 0 THEN maxLen ELSE MaxOf(lengths)
  IN  [i \in 1..Len(lengths) |->
        <<[j \in 1..actualMaxLen |->
            IF j <= MinOf2(lengths[i], actualMaxLen) THEN 1 ELSE 0]>>]

\* getTextMask(textIdsLengths)
getTextMask(textIdsLengths) == lengthToMask(textIdsLengths, MaxOf(textIdsLengths))

\* One row of textIds: filled with 0, then one id for every index of the text.
TextIdsRow(text, maxLen, indexerLength) ==
  [j \in 1..maxLen |->
    IF j > Len(text) THEN 0
    ELSE IF codePointAt(text, j) < indexerLength
         THEN IndexerEntry(codePointAt(text, j))
         ELSE -1]

\* call(textList)
ProcessorCall(indexerLength, texts) ==
  LET processedTexts == [i \in 1..Len(texts) |-> preprocessText(texts[i])]
      textIdsLengths == [i \in 1..Len(texts) |-> Len(processedTexts[i])]
      maxLen == MaxOf(textIdsLengths)
  IN  [processedTexts |-> processedTexts,
       textIds |-> [i \in 1..Len(texts) |->
                     TextIdsRow(processedTexts[i], maxLen, indexerLength)],
       textMask |-> getTextMask(textIdsLengths)]

\* ------------------------------------------------------------- SpecText
\* The code points the texts of SpecText are made of: a letter, a space, two
\* closing marks, a replaced, a substituted and a removed character, one that
\* NFKD decomposes, and one above U+FFFF.
TextCodePoints ==
  { <<"a">>, <<" ">>, <<".">>, <<"'">>, <<"@">>, <<"_">>, <<"\\">>, <<"<2026>">>,
    <<"<D840>", "<DC00>">> }

RECURSIVE Flatten(_)
Flatten(ss) == IF ss = <<>> THEN <<>> ELSE Head(ss) \o Flatten(Tail(ss))

\* The texts of at most n code points, as code units.
UnicodeTextsUpTo(n) ==
  {Flatten(cps) : cps \in UNION {[1..k -> TextCodePoints] : k \in 0..n}}

\* The texts that can stand next to the first in a batch: none, an empty one,
\* one of six letters.
BatchRests ==
  { <<>>, << <<>> >>, << <<"a", "a", "a", "a", "a", "a">> >> }

InitText ==
  /\ \E text \in UnicodeTextsUpTo(MaxCodePoints), rest \in BatchRests,
        n \in IndexerLengths :
       pArgs = [indexer |-> n, textList |-> <<text>> \o rest]
  /\ pOut = <<>>
  /\ pPc = "input"
  /\ ChunkIdle
  /\ LatentIdle
  /\ WavIdle
  /\ SessionAt("tts")

RunProcessorCall ==
  /\ pPc = "input"
  /\ pOut' = ProcessorCall(pArgs.indexer, pArgs.textList)
  /\ pPc' = "done"
  /\ UNCHANGED <<pArgs, chunkVars, latentVars, wavVars, initVars, callVars, appVars,
                 chatVars, wordVars>>

NextText == RunProcessorCall

SpecText == InitText /\ [][NextText]_vars

\* C13: for every input, the empty one and those made only of removed
\* characters or whitespace included, the output of preprocessText is not
\* empty and ends in a closing punctuation mark, and it is the text of the
\* other steps, with a period appended exactly when that text does not end in
\* such a mark.
NormalizedEndsClosed ==
  pPc = "done" =>
    \A i \in 1..Len(pArgs.textList) :
      LET out == pOut.processedTexts[i]
          body == BeforeFinalPeriod(pArgs.textList[i])
      IN  /\ out # <<>>
          /\ out[Len(out)] \in ClosingPunctuation
          /\ IF body # <<>> /\ body[Len(body)] \in ClosingPunctuation
             THEN out = body
             ELSE out = body \o <<".">>

\* C13 witness: a text of removed characters and whitespace only, next to an
\* empty text; both come out as a period.
NormalizedEndsClosedWitness ==
  /\ pPc = "done"
  /\ Len(pArgs.textList) = 2
  /\ Len(pArgs.textList[1]) >= 2
  /\ pArgs.textList[2] = <<>>
  /\ BeforeFinalPeriod(pArgs.textList[1]) = <<>>
  /\ pOut.processedTexts = << <<".">>, <<".">> >>

\* C14 as stated: normalizing a normalized text changes nothing.
NormalizeIdempotent ==
  pPc = "done" =>
    \A i \in 1..Len(pArgs.textList) :
      preprocessText(pOut.processedTexts[i]) = pOut.processedTexts[i]

\* The code points of a text: a surrogate pair is one code point.
RECURSIVE CodePointsFrom(_, _)
CodePointsFrom(s, j) ==
  IF j > Len(s) THEN <<>>
  ELSE IF IsPairAt(s, j) THEN <<PairCode(s[j], s[j + 1])>> \o CodePointsFrom(s, j + 2)
  ELSE <<UnitCode(s[j])>> \o CodePointsFrom(s, j + 1)

CodePointsOf(s) == CodePointsFrom(s, 1)

\* C15 as stated: all rows of ids and of the mask are as long as the longest
\* normalized text; a row holds one id per code point of its text, the table's
\* entry or -1 beyond the table, with mask 1; the padding is id 0 and mask 0.
TokenRowsOnePerCodePoint ==
  pPc = "done" =>
    LET cps == [i \in 1..Len(pArgs.textList) |-> CodePointsOf(pOut.processedTexts[i])]
        longest == MaxOf([i \in 1..Len(pArgs.textList) |-> Len(cps[i])])
    IN  \A i \in 1..Len(pArgs.textList) :
          /\ Len(pOut.textIds[i]) = longest
          /\ Len(pOut.textMask[i][1]) = longest
          /\ \A j \in 1..longest :
               IF j <= Len(cps[i])
               THEN /\ pOut.textIds[i][j] =
                         (IF cps[i][j] < pArgs.indexer THEN IndexerEntry(cps[i][j]) ELSE -1)
                    /\ pOut.textMask[i][1][j] = 1
               ELSE /\ pOut.textIds[i][j] = 0
                    /\ pOut.textMask[i][1][j] = 0

\* ---------------------------------------------------- sampleNoisyLatent
\* Math.floor(d * sampleRate), for d in hundredths of a second
FloorSamples(d, sr) == (d * sr) \div 100

\* Math.floor((len + chunkSize - 1) / chunkSize)
LatentLenFloored(len, chunkSize) == len \div chunkSize

LatentLenOf(len, chunkSize) == (len + chunkSize - 1) \div chunkSize

\* latentLen, as sampleNoisyLatent computes it from its arguments
LatentLenOfArgs(a) ==
  LatentLenOf(FloorSamples(MaxOf(a.duration), a.sampleRate), a.baseChunkSize * a.chunkCompress)

\* sampleNoisyLatent(duration, sampleRate, baseChunkSize, chunkCompress,
\* latentDim); noise[t] is the value the Box-Muller draw gives at time index t.
sampleNoisyLatent(a, noise) ==
  LET bsz == Len(a.duration)
      wavLenMax == FloorSamples(MaxOf(a.duration), a.sampleRate)
      wavLengths == [b \in 1..bsz |-> FloorSamples(a.duration[b], a.sampleRate)]
      chunkSize == a.baseChunkSize * a.chunkCompress
      latentLen == LatentLenOf(wavLenMax, chunkSize)
      latentDimVal == a.latentDim * a.chunkCompress
      drawn == [b \in 1..bsz |-> [d \in 1..latentDimVal |-> [t \in 1..latentLen |-> noise[t]]]]
      latentLengths == [b \in 1..bsz |-> LatentLenOf(wavLengths[b], chunkSize)]
      latentMask == lengthToMask(latentLengths, latentLen)
  IN  [xt |-> [b \in 1..bsz |-> [d \in 1..latentDimVal |-> [t \in 1..latentLen |->
                 drawn[b][d][t] * latentMask[b][1][t]]]],
       latentMask |-> latentMask]

\* ----------------------------------------------------------- SpecLatent
LatentDurations == {0, 42, 84, 130}   \* durations, in hundredths of a second
ChunkSizes == {1, 2}                  \* baseChunkSize and chunkCompress
NoiseValues == {-1, 1}                \* values of the random draw

DurationsUpTo(n) == UNION {[1..k -> LatentDurations] : k \in 1..n}

InitLatent ==
  /\ \E dur \in DurationsUpTo(MaxBatch), sr \in SampleRates, base \in ChunkSizes,
        compress \in ChunkSizes, dim \in 1..MaxLatentDim :
       lArgs = [duration |-> dur, sampleRate |-> sr, baseChunkSize |-> base,
                chunkCompress |-> compress, latentDim |-> dim]
  /\ lOut = <<>>
  /\ lPc = "input"
  /\ ChunkIdle
  /\ TextIdle
  /\ WavIdle
  /\ SessionAt("tts")

RunSampleNoisyLatent(noise) ==
  /\ lPc = "input"
  /\ lOut' = sampleNoisyLatent(lArgs, noise)
  /\ lPc' = "done"
  /\ UNCHANGED <<lArgs, chunkVars, textVars, wavVars, initVars, callVars, appVars,
                 chatVars, wordVars>>

NextLatent ==
  \E noise \in [1..LatentLenOfArgs(lArgs) -> NoiseValues] : RunSampleNoisyLatent(noise)

SpecLatent == InitLatent /\ [][NextLatent]_vars

\* ceil(n / c): the least k with k * c >= n
CeilDiv(n, c) == CHOOSE k \in 0..n : k * c >= n /\ \A m \in 0..n : m * c >= n => k <= m

\* The valid length of row b: ceil(floor(duration_b * sampleRate) / chunkSize).
ValidLength(b) ==
  CeilDiv(FloorSamples(lArgs.duration[b], lArgs.sampleRate),
          lArgs.baseChunkSize * lArgs.chunkCompress)

\* C16: in every batch row, every channel of the latent is exactly 0 at every
\* time index from the row's valid length on, and the mask is 0 there and 1 at
\* every time index below it.
LatentPaddingIsZero ==
  lPc = "done" =>
    \A b \in 1..Len(lOut.xt) :
      /\ \A d \in 1..Len(lOut.xt[b]) : \A t \in 1..Len(lOut.xt[b][d]) :
           t > ValidLength(b) => lOut.xt[b][d][t] = 0
      /\ \A t \in 1..Len(lOut.latentMask[b][1]) :
           lOut.latentMask[b][1][t] = (IF t > ValidLength(b) THEN 0 ELSE 1)

\* C16 witness: two rows, the first one shorter than the second and not empty.
LatentPaddingWitness ==
  /\ lPc = "done"
  /\ Len(lOut.xt) = 2
  /\ ValidLength(1) > 0
  /\ ValidLength(1) < ValidLength(2)
  /\ lOut.xt[1][1][ValidLength(1)] # 0
  /\ lOut.xt[1][1][ValidLength(2)] = 0

\* The number of time indices the mask of row b marks.
MarkedLength(b) ==
  Cardinality({t \in 1..Len(lOut.latentMask[b][1]) : lOut.latentMask[b][1][t] = 1})

\* C17: the latent has the shape [batch, latentDim * compress, timeLen] and
\* the mask [batch, 1, timeLen], with timeLen =
\* ceil(floor(maxDuration * sampleRate) / (baseChunkSize * compress)); the valid
\* length of row i is ceil(floor(duration_i * sampleRate) / (baseChunkSize *
\* compress)), at most timeLen, and timeLen for a row of maximal duration.
LatentShape ==
  lPc = "done" =>
    LET bsz == Len(lArgs.duration)
        timeLen == CeilDiv(FloorSamples(MaxOf(lArgs.duration), lArgs.sampleRate),
                           lArgs.baseChunkSize * lArgs.chunkCompress)
    IN  /\ Len(lOut.xt) = bsz
        /\ Len(lOut.latentMask) = bsz
        /\ \A b \in 1..bsz :
             /\ Len(lOut.xt[b]) = lArgs.latentDim * lArgs.chunkCompress
             /\ \A d \in 1..Len(lOut.xt[b]) : Len(lOut.xt[b][d]) = timeLen
             /\ Len(lOut.latentMask[b]) = 1
             /\ Len(lOut.latentMask[b][1]) = timeLen
             /\ MarkedLength(b) = ValidLength(b)
             /\ MarkedLength(b) <= timeLen
             /\ lArgs.duration[b] = MaxOf(lArgs.duration) => MarkedLength(b) = timeLen

\* C17 witness: two rows of different durations, a chunk size that does not
\* divide the longest waveform length, several latent channels.
LatentShapeWitness ==
  /\ lPc = "done"
  /\ Len(lArgs.duration) = 2
  /\ lArgs.duration[1] > lArgs.duration[2]
  /\ lArgs.chunkCompress = 2
  /\ lArgs.latentDim = 2
  /\ FloorSamples(lArgs.duration[1], lArgs.sampleRate)
       % (lArgs.baseChunkSize * lArgs.chunkCompress) # 0
  /\ Len(lOut.xt[1][1]) >= 2

\* ---------------------------------------------------------- writeWavFile
\* A sample is an integer number of hundredths; a byte is in 0..255.
\* view.setUint32(offset, n, true)
Uint32BE(n) ==
  <<(n \div 16777216) % 256, (n \div 65536) % 256, (n \div 256) % 256, n % 256>>

Uint32LE(n) ==
  <<n % 256, (n \div 256) % 256, (n \div 65536) % 256, (n \div 16777216) % 256>>

\* view.setUint16(offset, n, true)
Uint16LE(n) == <<n % 256, (n \div 256) % 256>>

\* writeString(offset, string)
WriteString(str) == [i \in 1..Len(str) |-> UnitCode(str[i])]

\* Math.max(-1.0, Math.min(1.0, x))
Clamp(x) == IF x < -100 THEN -100 ELSE IF x > 100 THEN 100 ELSE x

\* Math.floor(clamped * 32767)
QuantizeRounded(x) == (Clamp(x) * 32767 + 50) \div 100

Quantize(x) == (Clamp(x) * 32767) \div 100

\* An element of the Int16Array as the Uint8Array over its buffer shows it.
Int16Bytes(v) == <<(v % 65536) % 256, (v % 65536) \div 256>>

RECURSIVE DataBytes(_)
DataBytes(audioData) ==
  IF audioData = <<>> THEN <<>>
  ELSE Int16Bytes(Quantize(Head(audioData))) \o DataBytes(Tail(audioData))

\* writeWavFile(audioData, sampleRate): the bytes of the buffer
writeWavFile(audioData, sampleRate) ==
  LET numChannels == 1
      bitsPerSample == 16
      byteRate == (sampleRate * numChannels * bitsPerSample) \div 8
      blockAlign == (numChannels * bitsPerSample) \div 8
      dataSize == Len(audioData) * 2
  IN  WriteString(<<"R", "I", "F", "F">>) \o Uint32LE(36 + dataSize)
        \o WriteString(<<"W", "A", "V", "E">>) \o WriteString(<<"f", "m", "t", " ">>)
        \o Uint32LE(16) \o Uint16LE(1) \o Uint16LE(numChannels)
        \o Uint32LE(sampleRate) \o Uint32LE(byteRate)
        \o Uint16LE(blockAlign) \o Uint16LE(bitsPerSample)
        \o WriteString(<<"d", "a", "t", "a">>) \o Uint32LE(dataSize)
        \o DataBytes(audioData)

\* -------------------------------------------------------------- SpecWav
SampleValues == {-150, -100, -50, -25, 0, 25, 50, 100, 150}   \* in hundredths
WavSampleRates == {8000, 16000, 44100}
ReferenceSamples == <<0, 100, -100, 50>>                      \* [0.0, 1.0, -1.0, 0.5]

SamplesUpTo(n) == UNION {[1..k -> SampleValues] : k \in 0..n}

InitWav ==
  /\ \E audioData \in SamplesUpTo(MaxSamples) \cup {ReferenceSamples},
        sampleRate \in WavSampleRates :
       wArgs = [audioData |-> audioData, sampleRate |-> sampleRate]
  /\ wBuffer = <<>>
  /\ wPc = "input"
  /\ ChunkIdle
  /\ TextIdle
  /\ LatentIdle
  /\ SessionAt("tts")

RunWriteWavFile ==
  /\ wPc = "input"
  /\ wBuffer' = writeWavFile(wArgs.audioData, wArgs.sampleRate)
  /\ wPc' = "done"
  /\ UNCHANGED <<wArgs, chunkVars, textVars, latentVars, initVars, callVars, appVars,
                 chatVars, wordVars>>

NextWav == RunWriteWavFile

SpecWav == InitWav /\ [][NextWav]_vars

\* Reading the buffer back: little-endian unsigned and signed integers.
ReadUint32(buf, at) ==
  buf[at] + 256 * buf[at + 1] + 65536 * buf[at + 2] + 16777216 * buf[at + 3]

ReadUint16(buf, at) == buf[at] + 256 * buf[at + 1]

ReadInt16(buf, at) ==
  IF ReadUint16(buf, at) >= 32768 THEN ReadUint16(buf, at) - 65536 ELSE ReadUint16(buf, at)

\* sample i of the data, i from 1
StoredSample(i) == ReadInt16(wBuffer, 45 + 2 * (i - 1))

\* round_toward_zero(clamp(x, -1, 1) * 32767), for x in hundredths
TowardZero(x) ==
  LET c == IF x < -100 THEN -100 ELSE IF x > 100 THEN 100 ELSE x
  IN  IF c >= 0 THEN (c * 32767) \div 100 ELSE -((-c * 32767) \div 100)

\* C18 as stated: every sample x, positive or negative, is stored as the
\* little-endian signed 16-bit integer round_toward_zero(clamp(x, -1, 1) * 32767),
\* a value in -32767..32767.
SamplesRoundTowardZero ==
  wPc = "done" =>
    \A i \in 1..Len(wArgs.audioData) :
      /\ StoredSample(i) = TowardZero(wArgs.audioData[i])
      /\ StoredSample(i) >= -32767
      /\ StoredSample(i) <= 32767

\* C19: the buffer has 44 + 2n bytes, and its header is RIFF, 36 + 2n, WAVE,
\* fmt, 16, format 1, 1 channel, the sample rate, the byte rate sampleRate * 2,
\* block align 2, 16 bits per sample, data, 2n, the integers little-endian.
WavHeaderExact ==
  wPc = "done" =>
    LET n == Len(wArgs.audioData)
    IN  /\ Len(wBuffer) = 44 + 2 * n
        /\ SubSeq(wBuffer, 1, 4) = <<82, 73, 70, 70>>
        /\ ReadUint32(wBuffer, 5) = 36 + 2 * n
        /\ SubSeq(wBuffer, 9, 12) = <<87, 65, 86, 69>>
        /\ SubSeq(wBuffer, 13, 16) = <<102, 109, 116, 32>>
        /\ ReadUint32(wBuffer, 17) = 16
        /\ ReadUint16(wBuffer, 21) = 1
        /\ ReadUint16(wBuffer, 23) = 1
        /\ ReadUint32(wBuffer, 25) = wArgs.sampleRate
        /\ ReadUint32(wBuffer, 29) = wArgs.sampleRate * 2
        /\ ReadUint16(wBuffer, 33) = 2
        /\ ReadUint16(wBuffer, 35) = 16
        /\ SubSeq(wBuffer, 37, 40) = <<100, 97, 116, 97>>
        /\ ReadUint32(wBuffer, 41) = 2 * n
        /\ \A i \in 1..Len(wBuffer) : wBuffer[i] \in 0..255

\* C19 witness: two samples written at 44100 Hz.
WavHeaderWitness ==
  /\ wPc = "done"
  /\ Len(wArgs.audioData) = 2
  /\ wArgs.sampleRate = 44100
  /\ Len(wBuffer) = 48

\* C20: the reference vector [0.0, 1.0, -1.0, 0.5] at 16000 Hz is written with
\* data size 8 and RIFF size 44, and its samples read back as 0, 32767,
\* -32767, 16383.
WavReferenceVector ==
  (wPc = "done" /\ wArgs.audioData = ReferenceSamples /\ wArgs.sampleRate = 16000) =>
    /\ ReadUint32(wBuffer, 41) = 8
    /\ ReadUint32(wBuffer, 5) = 44
    /\ [i \in 1..4 |-> StoredSample(i)] = <<0, 32767, -32767, 16383>>

\* C20 witness: the reference vector was written at 16000 Hz.
WavReferenceWitness ==
  /\ wPc = "done"
  /\ wArgs.audioData = ReferenceSamples
  /\ wArgs.sampleRate = 16000
  /\ Len(wBuffer) = 52

\* ------------------------------------------------------------------ call()
\* The text of a request: n paragraphs of one sentence, blank lines between.
RECURSIVE RequestText(_)
RequestText(n) ==
  IF n = 0 THEN <<>>
  ELSE IF n = 1 THEN <<"o", ".">>
  ELSE RequestText(n - 1) \o <<"\n", "\n", "o", ".">>

\* A JavaScript value handed to call() as its text: a string, or not one.
Str(chars) == [type |-> "string", chars |-> chars]

NonStrings == {[type |-> "undefined", chars |-> <<>>], [type |-> "number", chars |-> <<>>]}

\* if (typeof text !== 'string') throw
chunkTextAcceptsAll(text) == FALSE

chunkTextThrows(text) == text.type # "string"

\* _infer([chunk], ...): bsz = textList.length
BszOf(list) == Len(list)

\* The configuration the engine was constructed with: cfgs.ae.base_chunk_size,
\* cfgs.ttl.chunk_compress_factor, cfgs.ttl.latent_dim, and the length of the
\* indexer of its text processor.
CfgBaseChunkSize == 1
CfgChunkCompress == 2
CfgLatentDim == 1
CfgIndexerLength == 65536

\* new ort.Tensor(type, data, dims)
Tensor(data, dims) == [data |-> data, dims |-> dims]

\* array.flat(2) of a three-level array
Flat2(a) == Flatten(Flatten(a))

\* new ort.Tensor('float32', new Float32Array(xt.flat(2)),
\*                [bsz, xt[0].length, xt[0][0].length])
LatentTensor(xt) == Tensor(Flat2(xt), <<Len(xt), Len(xt[1]), Len(xt[1][1])>>)

\* The chunks the texts of the requests are cut into.
RequestChunks ==
  UNION {{chunkText(RequestText(n), DefaultMaxLen)[i] :
            i \in 1..Len(chunkText(RequestText(n), DefaultMaxLen))} :
         n \in 0..MaxParagraphs}

\* this.textProcessor.call([chunk]), for each of these chunks
Processed == [chunk \in RequestChunks |-> ProcessorCall(CfgIndexerLength, <<chunk>>)]

\* _infer up to its first await: the text processor's ids and mask, as tensors.
InferBegin(chunk) ==
  LET list == <<chunk>>
      bsz == BszOf(list)
      p == Processed[chunk]
  IN  [textIds |-> Tensor(Flatten(p.textIds), <<bsz, Len(p.textIds[1])>>),
       textMask |-> Tensor(Flat2(p.textMask), <<bsz, 1, Len(p.textMask[1][1])>>),
       dpOut |-> <<>>, textEmb |-> <<>>, xt |-> <<>>, latentMask |-> <<>>]

\* The tensors of one backend run call.
DpCall(k, style, inf) ==
  [m |-> "dp", chunk |-> k, currentStep |-> <<>>, totalStep |-> <<>>, style |-> style,
   textIds |-> inf.textIds, textMask |-> inf.textMask, textEmb |-> <<>>,
   latentMask |-> <<>>, noisyLatent |-> <<>>, latent |-> <<>>]

TextEncCallCurrentStyle(k, style, inf) ==
  [m |-> "textEnc", chunk |-> k, currentStep |-> <<>>, totalStep |-> <<>>,
   style |-> curStyle,
   textIds |-> inf.textIds, textMask |-> inf.textMask, textEmb |-> <<>>,
   latentMask |-> <<>>, noisyLatent |-> <<>>, latent |-> <<>>]

TextEncCall(k, style, inf) ==
  [m |-> "textEnc", chunk |-> k, currentStep |-> <<>>, totalStep |-> <<>>, style |-> style,
   textIds |-> inf.textIds, textMask |-> inf.textMask, textEmb |-> <<>>,
   latentMask |-> <<>>, noisyLatent |-> <<>>, latent |-> <<>>]

EstCallTotalFromStep(k, s, total, style, bsz, inf) ==
  [m |-> "est", chunk |-> k, currentStep |-> [b \in 1..bsz |-> s],
   totalStep |-> [b \in 1..bsz |-> s + 1], style |-> style,
   textIds |-> <<>>, textMask |-> inf.textMask, textEmb |-> inf.textEmb,
   latentMask |-> inf.latentMask, noisyLatent |-> LatentTensor(inf.xt), latent |-> <<>>]

EstCall(k, s, total, style, bsz, inf) ==
  [m |-> "est", chunk |-> k, currentStep |-> [b \in 1..bsz |-> s],
   totalStep |-> [b \in 1..bsz |-> total], style |-> style,
   textIds |-> <<>>, textMask |-> inf.textMask, textEmb |-> inf.textEmb,
   latentMask |-> inf.latentMask, noisyLatent |-> LatentTensor(inf.xt), latent |-> <<>>]

VocCallEmptyLatent(k, inf) ==
  [m |-> "voc", chunk |-> k, currentStep |-> <<>>, totalStep |-> <<>>, style |-> NoStyle,
   textIds |-> <<>>, textMask |-> <<>>, textEmb |-> <<>>,
   latentMask |-> <<>>, noisyLatent |-> <<>>, latent |-> Tensor(<<>>, <<0, 0, 0>>)]

VocCall(k, inf) ==
  [m |-> "voc", chunk |-> k, currentStep |-> <<>>, totalStep |-> <<>>, style |-> NoStyle,
   textIds |-> <<>>, textMask |-> <<>>, textEmb |-> <<>>,
   latentMask |-> <<>>, noisyLatent |-> <<>>, latent |-> LatentTensor(inf.xt)]

\* if (style.ttl.dims[0] !== 1) throw
StyleRejected(style) == style.ttlB # 1

\* duration[i] /= speed
ScaleDurationMultiplied(d, speed) == (d * speed) \div 100

ScaleDuration(d, speed) == (d * 100) \div speed

\* for (let step = 0; step < totalStep; step++)
LoopContinuesInclusive(s, total) == s <= total

LoopContinues(s, total) == s < total

\* progressCallback(step + 1, totalStep), made while _infer works on chunk k
ProgressCallZeroBased(k, s, total) == [chunk |-> k, args |-> <<s, total>>]

ProgressCall(k, s, total) == [chunk |-> k, args |-> <<s + 1, total>>]

\* The text encoder's text_emb output for chunk k: opaque to the orchestration.
TextEmbOf(k) == <<"text_emb", k>>

\* The estimator's denoised_latent data for the call of chunk k at step s: n
\* values, opaque to the orchestration.
Denoised(k, s, n) == [i \in 1..n |-> 100 * k + 10 * (s + 1) + i]

\* The texts handed to call() directly.
BlankTexts == {<<" ">>, <<" ", "\n", "\n", " ">>}

CallTexts ==
  {Str(RequestText(n)) : n \in 0..MaxParagraphs}
    \cup {Str(chars) : chars \in BlankTexts} \cup NonStrings

\* The arguments _infer hands sampleNoisyLatent.
LatentArgs(dur, sr) ==
  [duration |-> dur, sampleRate |-> sr, baseChunkSize |-> CfgBaseChunkSize,
   chunkCompress |-> CfgChunkCompress, latentDim |-> CfgLatentDim]

\* The draw of sampleNoisyLatent a request is followed with: the noise at each
\* time index.  The orchestration never reads the values of the latent, and
\* SpecLatent covers every draw.
NoiseOf(dur, sr) == {[t \in 1..LatentLenOfArgs(LatentArgs(dur, sr)) |-> 1]}

\* The draws sampleNoisyLatent can make when the text encoder's run resolves.
NoiseDraws == IF pc = "textEnc" THEN NoiseOf(duration, req.engine.sampleRate) ELSE {}

\* xt = []; ... row.push(denoised[idx++]): the latent rebuilt from the
\* estimator's output, in the shape of the previous latent.
ReplaceLatentBlended(xt, denoised) ==
  LET latentDim == Len(xt[1])
      latentLen == Len(xt[1][1])
  IN  [b \in 1..Len(xt) |-> [d \in 1..latentDim |-> [t \in 1..latentLen |->
        xt[b][d][t] + denoised[((b - 1) * latentDim + (d - 1)) * latentLen + t]]]]

ReplaceLatent(xt, denoised) ==
  LET latentDim == Len(xt[1])
      latentLen == Len(xt[1][1])
  IN  [b \in 1..Len(xt) |-> [d \in 1..latentDim |-> [t \in 1..latentLen |->
        denoised[((b - 1) * latentDim + (d - 1)) * latentLen + t]]]]

\* Math.floor(silenceDuration * this.sampleRate)
SilenceLenRounded(silence, sr) == (silence * sr + 50) \div 100

SilenceLen(silence, sr) == (silence * sr) \div 100

Zeros(n) == [i \in 1..n |-> 0]

\* The body of the chunk loop of call() after _infer returned {wav, duration}.
Concat(wc, dc, wav, dur, silence, sr) ==
  IF Len(wc) = 0
  THEN [wavCat |-> wav, durCat |-> dur[1]]
  ELSE [wavCat |-> wc \o Zeros(SilenceLen(silence, sr)) \o wav,
        durCat |-> dc + dur[1] + silence]

\* wav.slice(0, wavLen)
Slice(wav, n) == SubSeq(wav, 1, IF n < Len(wav) THEN n ELSE Len(wav))

\* TTS.tsx generateSpeech: Math.floor(sampleRate * duration[0])
PageWavLen(wav, dur, sr) == (sr * dur) \div 100

\* voiceChatEngine.ts generateSpeech: Math.floor(sampleRate * wav.length / sampleRate)
ChatWavLen(wav, dur, sr) == (sr * Len(wav)) \div sr

\* What the caller does with {wav, duration}: the samples it serializes.
Serialized(caller, wav, dur, sr) ==
  IF caller = "tts" THEN Slice(wav, PageWavLen(wav, dur, sr))
  ELSE IF caller = "chat" THEN Slice(wav, ChatWavLen(wav, dur, sr))
  ELSE NoWav

\* return { wav: wavCat, duration: [durCat] }
CallResultNoDuration(wc, dc) == [kind |-> "ok", wav |-> wc, duration |-> <<>>]

CallResult(wc, dc) == [kind |-> "ok", wav |-> wc, duration |-> <<dc>>]

\* call() begins: the style check, chunkText, and the first chunk's _infer up
\* to its first await (the duration predictor's run).
Call(caller, text, style, totalStep, speed, silence, callback) ==
  /\ pc = "idle"
  /\ engine # NoEngine
  /\ req' = [caller |-> caller, style |-> style, totalStep |-> totalStep,
             speed |-> speed, silence |-> silence, engine |-> engine,
             callback |-> callback, text |-> text]
  /\ outs' = <<>>
  /\ progress' = <<>>
  /\ IF StyleRejected(style) \/ chunkTextThrows(text)
     THEN /\ result' = [kind |-> IF StyleRejected(style) THEN "rejected" ELSE "invalid",
                        wav |-> NoWav, duration |-> NoWav]
          /\ log' = <<>>
          /\ wavOut' = NoWav
          /\ textList' = <<>>
          /\ infer' = NoInfer
          /\ UNCHANGED <<pc, chunkIdx, step, duration, wavCat, durCat, pending>>
     ELSE LET list == chunkText(text.chars, DefaultMaxLen)
          IN  /\ textList' = list
              /\ wavCat' = <<>>
              /\ durCat' = 0
              /\ step' = 0
              /\ duration' = <<>>
              /\ IF list = <<>>
                 THEN /\ result' = CallResult(<<>>, 0)
                      /\ wavOut' = Serialized(caller, <<>>, 0, engine.sampleRate)
                      /\ log' = <<>>
                      /\ infer' = NoInfer
                      /\ UNCHANGED <<pc, chunkIdx, pending>>
                 ELSE /\ result' = NoResult
                      /\ wavOut' = NoWav
                      /\ chunkIdx' = 1
                      /\ pc' = "dp"
                      /\ infer' = InferBegin(list[1])
                      /\ pending' = pending \cup {DpCall(1, style, infer')}
                      /\ log' = <<DpCall(1, style, infer')>>
  /\ UNCHANGED <<fnVars, initVars>>

\* TTS.tsx generateSpeech: the page's text, style, step count and speed, and
\* a callback that shows the step.
PageGenerateSpeech(n, totalStep, speed) ==
  /\ app = "tts"
  /\ ~isLoading
  /\ curStyle # NoStyle
  /\ Call("tts", Str(RequestText(n)), curStyle, totalStep, speed, PageSilence, TRUE)

\* voiceChatEngine.ts generateSpeech: fixed step count, speed and silence, no
\* callback.
ChatGenerateSpeech(n) ==
  /\ app = "chat"
  /\ curStyle # NoStyle
  /\ Call("chat", Str(RequestText(n)), curStyle, ChatTotalStep, ChatSpeed, ChatSilence,
          FALSE)

\* TextToSpeech.call used directly, with any arguments.  call() writes no field
\* of the engine, so a request does not depend on the requests before it:
\* SpecCall follows the first request made on a constructed engine.
DirectCall(text, style, totalStep, speed, silence, callback) ==
  /\ req = NoRequest
  /\ Call("direct", text, style, totalStep, speed, silence, callback)

\* The duration predictor's run resolves: scale the duration, then await the
\* text encoder's run.
DpReturns(d) ==
  /\ pc = "dp"
  /\ duration' = [i \in 1..BszOf(<<textList[chunkIdx]>>) |-> ScaleDuration(d, req.speed)]
  /\ infer' = [infer EXCEPT !.dpOut = [i \in 1..BszOf(<<textList[chunkIdx]>>) |-> d]]
  /\ pc' = "textEnc"
  /\ pending' = (pending \ {DpCall(chunkIdx, req.style, infer)})
                  \cup {TextEncCall(chunkIdx, req.style, infer')}
  /\ log' = Append(log, TextEncCall(chunkIdx, req.style, infer'))
  /\ UNCHANGED <<req, textList, chunkIdx, step, wavCat, durCat, outs, result, wavOut,
                 progress, fnVars, initVars>>

\* The call _infer awaits next when its loop variable is s and its locals are
\* inf: one more estimator run, or the vocoder's run after the loop.
NextInLoopBreaksEarly(s, inf) ==
  IF s = 0 /\ LoopContinues(s, req.totalStep)
  THEN [pc |-> "est",
        call |-> EstCall(chunkIdx, s, req.totalStep, req.style,
                         BszOf(<<textList[chunkIdx]>>), inf)]
  ELSE [pc |-> "voc", call |-> VocCall(chunkIdx, inf)]

NextInLoop(s, inf) ==
  IF LoopContinues(s, req.totalStep)
  THEN [pc |-> "est",
        call |-> EstCall(chunkIdx, s, req.totalStep, req.style,
                         BszOf(<<textList[chunkIdx]>>), inf)]
  ELSE [pc |-> "voc", call |-> VocCall(chunkIdx, inf)]

\* The calls of the progress callback made on entering the loop body with the
\* loop variable s (none after the loop, none without a callback).
ProgressAt(s) ==
  IF LoopContinues(s, req.totalStep) /\ req.callback
  THEN Append(progress, ProgressCall(chunkIdx, s, req.totalStep))
  ELSE progress

\* The text encoder's run resolves: sample the latent, enter the loop.
TextEncReturns(noise) ==
  /\ pc = "textEnc"
  /\ LET sampled == sampleNoisyLatent(LatentArgs(duration, req.engine.sampleRate), noise)
         bsz == BszOf(<<textList[chunkIdx]>>)
     IN  infer' = [infer EXCEPT
                     !.textEmb = TextEmbOf(chunkIdx),
                     !.xt = sampled.xt,
                     !.latentMask = Tensor(Flat2(sampled.latentMask),
                                           <<bsz, 1, Len(sampled.latentMask[1][1])>>)]
  /\ step' = 0
  /\ progress' = ProgressAt(0)
  /\ pc' = NextInLoop(0, infer').pc
  /\ pending' = (pending \ {TextEncCall(chunkIdx, req.style, infer)})
                  \cup {NextInLoop(0, infer').call}
  /\ log' = Append(log, NextInLoop(0, infer').call)
  /\ UNCHANGED <<req, textList, chunkIdx, duration, wavCat, durCat, outs, result, wavOut,
                 fnVars, initVars>>

\* An estimator run resolves: the latent is replaced, the loop goes on.
EstReturns ==
  /\ pc = "est"
  /\ LET n == Len(LatentTensor(infer.xt).data)
     IN  infer' = [infer EXCEPT !.xt = ReplaceLatent(infer.xt, Denoised(chunkIdx, step, n))]
  /\ step' = step + 1
  /\ progress' = ProgressAt(step + 1)
  /\ pc' = NextInLoop(step + 1, infer').pc
  /\ pending' = (pending \ {NextInLoop(step, infer).call})
                  \cup {NextInLoop(step + 1, infer').call}
  /\ log' = Append(log, NextInLoop(step + 1, infer').call)
  /\ UNCHANGED <<req, textList, chunkIdx, duration, wavCat, durCat, outs, result, wavOut,
                 fnVars, initVars>>

\* The vocoder's run resolves with a waveform of n samples: _infer returns,
\* call() concatenates, and either the next chunk's _infer begins or call()
\* returns and its caller serializes the result.
VocReturns(n) ==
  /\ pc = "voc"
  /\ LET wav == [i \in 1..n |-> chunkIdx]
         cat == Concat(wavCat, durCat, wav, duration, req.silence, req.engine.sampleRate)
     IN  /\ wavCat' = cat.wavCat
         /\ durCat' = cat.durCat
         /\ outs' = Append(outs, [wav |-> wav, duration |-> duration])
         /\ IF chunkIdx < Len(textList)
            THEN /\ chunkIdx' = chunkIdx + 1
                 /\ pc' = "dp"
                 /\ infer' = InferBegin(textList[chunkIdx + 1])
                 /\ pending' = (pending \ {VocCall(chunkIdx, infer)})
                                 \cup {DpCall(chunkIdx + 1, req.style, infer')}
                 /\ log' = Append(log, DpCall(chunkIdx + 1, req.style, infer'))
                 /\ UNCHANGED <<result, wavOut>>
            ELSE /\ pc' = "idle"
                 /\ pending' = pending \ {VocCall(chunkIdx, infer)}
                 /\ result' = CallResult(cat.wavCat, cat.durCat)
                 /\ wavOut' = Serialized(req.caller, cat.wavCat, cat.durCat,
                                         req.engine.sampleRate)
                 /\ UNCHANGED <<chunkIdx, log, infer>>
  /\ UNCHANGED <<req, textList, step, duration, progress, fnVars, initVars>>

\* What call() hands its caller when a backend run rejects.
FailureResultPartial(wc, dc) == [kind |-> "failed", wav |-> wc, duration |-> <<dc>>]

FailureResult(wc, dc) == [kind |-> "failed", wav |-> NoWav, duration |-> NoWav]

\* The awaited backend run rejects: _infer and call() throw, the caller's
\* catch reports the error.
RunFails ==
  /\ pc \in {"dp", "textEnc", "est", "voc"}
  /\ pc' = "idle"
  /\ pending' = {}
  /\ result' = FailureResult(wavCat, durCat)
  /\ UNCHANGED <<req, textList, chunkIdx, step, duration, wavCat, durCat, log, outs,
                 wavOut, infer, progress, fnVars, initVars>>

\* ------------------------------------------------------------------- Spec
\* The two pages: initialization, then requests through generateSpeech.
Apps == {"tts", "chat"}

Init ==
  /\ ChunkIdle
  /\ TextIdle
  /\ LatentIdle
  /\ WavIdle
  /\ \E a \in Apps : SessionAt(a)

Next ==
  \/ StartInit
  \/ \E o \in LoadOutcomes, sr \in SampleRates : FirstAttemptSettles(o, sr)
  \/ \E o \in LoadOutcomes, sr \in SampleRates : FallbackAttemptSettles(o, sr)
  \/ \E ok \in BOOLEAN : DefaultStyleSettles(ok)
  \/ \E n \in 1..MaxParagraphs, t \in 1..MaxStep, sp \in Speeds :
       PageGenerateSpeech(n, t, sp)
  \/ \E n \in 1..MaxParagraphs : ChatGenerateSpeech(n)
  \/ \E d \in DpOutputs : DpReturns(d)
  \/ \E noise \in NoiseDraws : TextEncReturns(noise)
  \/ EstReturns
  \/ \E n \in {0, MaxWavLen} : VocReturns(n)    \* an empty waveform, or a longest one
  \/ RunFails

Spec == Init /\ [][Next]_vars

\* --------------------------------------------------------------- SpecCall
\* TextToSpeech.call on a constructed engine, with any arguments.
InitCall ==
  /\ ChunkIdle
  /\ TextIdle
  /\ LatentIdle
  /\ WavIdle
  /\ app = "lib"
  /\ initPc = "ready"
  /\ attempts = <<>>
  /\ loadLog = <<>>
  /\ \E sr \in SampleRates :
       engine = [provider |-> "wasm", attempt |-> 0, sampleRate |-> sr]
  /\ curStyle = NoStyle
  /\ surfaced = FALSE
  /\ isLoading = FALSE
  /\ styleLoad = NoStyleLoad
  /\ voiceStylePath = DefaultVoiceStyle
  /\ AppIdle
  /\ apiKey = TRUE
  /\ CallIdle

NextCall ==
  \/ \E text \in CallTexts, st \in Styles, t \in 0..MaxStep, sp \in Speeds,
        si \in Silences : DirectCall(text, st, t, sp, si, FALSE)
  \/ \E d \in DpOutputs : DpReturns(d)
  \/ \E noise \in NoiseDraws : TextEncReturns(noise)
  \/ EstReturns
  \/ \E n \in 0..MaxWavLen : VocReturns(n)
  \/ RunFails

SpecCall == InitCall /\ [][NextCall]_vars

\* -------------------------------------------------------------- SpecInfer
\* TextToSpeech.call on a constructed engine, followed through _infer: with or
\* without a progress callback, with every draw of the noise, and with one
\* silence and one waveform length, which _infer does not read.
AllNoiseDraws ==
  IF pc = "textEnc"
  THEN [1..LatentLenOfArgs(LatentArgs(duration, req.engine.sampleRate)) -> NoiseValues]
  ELSE {}

NextInfer ==
  \/ \E text \in CallTexts, st \in Styles, t \in 0..MaxStep, sp \in Speeds,
        cb \in BOOLEAN : DirectCall(text, st, t, sp, PageSilence, cb)
  \/ \E d \in DpOutputs : DpReturns(d)
  \/ \E noise \in AllNoiseDraws : TextEncReturns(noise)
  \/ EstReturns
  \/ VocReturns(1)
  \/ RunFails

SpecInfer == InitCall /\ [][NextInfer]_vars

\* --------------------------------------------------------------- SpecPage
\* The TTS page after a successful initialization: requests and changes of
\* the voice style, in any interleaving.
StyleChoices == {"M1", "F1"}    \* of VOICE_STYLES, the default and another

\* handleVoiceStyleChange up to its first await: the select is enabled, a
\* value is selected, and the load of that style begins.
HandleVoiceStyleChange(id) ==
  /\ app = "tts"
  /\ ~isLoading
  /\ isLoading' = TRUE
  /\ styleLoad' = [pc |-> "loading", id |-> id]
  /\ UNCHANGED <<app, initPc, attempts, loadLog, engine, curStyle, surfaced,
                 voiceStylePath, fnVars, callVars>>

\* The load of the selected style settles: the style is replaced, or the
\* catch begins to restore the default style.
StyleLoadSettles(ok) ==
  /\ styleLoad.pc = "loading"
  /\ IF ok
     THEN /\ curStyle' = LoadedStyle(styleLoad.id, 1)
          /\ voiceStylePath' = styleLoad.id
          /\ isLoading' = FALSE
          /\ styleLoad' = NoStyleLoad
     ELSE /\ voiceStylePath' = DefaultVoiceStyle
          /\ styleLoad' = [pc |-> "restoring", id |-> DefaultVoiceStyle]
          /\ UNCHANGED <<curStyle, isLoading>>
  /\ UNCHANGED <<app, initPc, attempts, loadLog, engine, surfaced, fnVars, callVars>>

\* The load of the default style made by the catch settles.
DefaultRestoreSettles(ok) ==
  /\ styleLoad.pc = "restoring"
  /\ curStyle' = IF ok THEN LoadedStyle(styleLoad.id, 1) ELSE curStyle
  /\ isLoading' = FALSE
  /\ styleLoad' = NoStyleLoad
  /\ UNCHANGED <<app, initPc, attempts, loadLog, engine, surfaced, voiceStylePath, fnVars,
                 callVars>>

\* The page a after an initialization whose first attempt and default style
\* load succeeded, with or without an API key in the environment.
ReadyKeyed(a, key) ==
  /\ apiKey = key
  /\ ChunkIdle
  /\ TextIdle
  /\ LatentIdle
  /\ WavIdle
  /\ AppIdle
  /\ app = a
  /\ initPc = "ready"
  /\ attempts = <<ProviderOfAttempt(0)>>
  /\ loadLog = Append(LoadsOf(a, 1, "ok"),
                      [asset |-> "style", attempt |-> 1, ok |-> TRUE, cause |-> "none"])
  /\ \E sr \in SampleRates :
       engine = [provider |-> ProviderOfAttempt(0), attempt |-> 1, sampleRate |-> sr]
  /\ curStyle = LoadedStyle("M1", 1)
  /\ surfaced = FALSE
  /\ isLoading = FALSE
  /\ styleLoad = NoStyleLoad
  /\ voiceStylePath = DefaultVoiceStyle
  /\ CallIdle

ReadyAt(a) == ReadyKeyed(a, TRUE)

InitPage == ReadyAt("tts")

NextPage ==
  \/ \E n \in 1..MaxParagraphs, t \in 1..MaxStep : PageGenerateSpeech(n, t, 100)
  \/ \E id \in StyleChoices : HandleVoiceStyleChange(id)
  \/ \E ok \in BOOLEAN : StyleLoadSettles(ok)
  \/ \E ok \in BOOLEAN : DefaultRestoreSettles(ok)
  \/ DpReturns(84)
  \/ \E noise \in NoiseDraws : TextEncReturns(noise)
  \/ EstReturns
  \/ VocReturns(1)
  \/ RunFails

SpecPage == InitPage /\ [][NextPage]_vars

\* ---------------------------------------------------------------- SpecApp
\* The two pages as the callers of the engine: what starts a generateSpeech
\* and what its settling lets happen.  A synthesis is followed here only as a
\* promise that is pending (counted in inFlight) and then settles.

\* What the handlers of the pages leave alone.
engineVars == <<chunkVars, textVars, latentVars, wavVars, initVars, callVars, chatVars,
                wordVars>>

\* TTS.tsx: the Generate button is enabled and clicked; generateSpeech runs
\* up to its await of textToSpeechRef.current.call(...).
ClickGenerate ==
  /\ app = "tts"
  /\ ~(isLoading \/ isGenerating)
  /\ engine # NoEngine
  /\ curStyle # NoStyle
  /\ isGenerating' = TRUE
  /\ inFlight' = inFlight + 1
  /\ UNCHANGED <<audioQueue, isPlaying, workers, stream, pushed, speech, engineVars>>

\* TTS.tsx: the awaited call settles, well or not; finally runs.
GenerateSettles ==
  /\ app = "tts"
  /\ inFlight > 0
  /\ inFlight' = inFlight - 1
  /\ isGenerating' = FALSE
  /\ UNCHANGED <<audioQueue, isPlaying, workers, stream, pushed, speech, engineVars>>

\* App.tsx processAudioQueue: if (isPlayingRef.current || queue.length === 0) return
ProcessAudioQueueIgnoresPlaying(q) == q = <<>>

ProcessAudioQueueReturns(q) == isPlaying \/ q = <<>>

\* An entry of the record of the speech.
Event(e, chunk, ok) == [e |-> e, chunk |-> chunk, ok |-> ok]

\* const textChunk = audioQueueRef.current.shift()
ShiftLast(q) == [chunk |-> q[Len(q)], rest |-> SubSeq(q, 1, Len(q) - 1)]

Shift(q) == [chunk |-> Head(q), rest |-> Tail(q)]

\* App.tsx: a chunk is pushed on the queue q and processAudioQueue() is
\* called: it returns at once, or sets isPlayingRef, takes the first chunk and
\* awaits generateSpeech for it.
PushAndProcess(q) ==
  /\ pushed' = pushed + 1
  /\ IF ProcessAudioQueueReturns(Append(q, pushed + 1))
     THEN /\ audioQueue' = Append(q, pushed + 1)
          /\ UNCHANGED <<isPlaying, workers, inFlight, speech>>
     ELSE LET taken == Shift(Append(q, pushed + 1))
          IN  /\ audioQueue' = taken.rest
              /\ isPlaying' = TRUE
              /\ workers' = Append(workers, [pc |-> "generating", chunk |-> taken.chunk])
              /\ inFlight' = inFlight + 1
              /\ speech' = Append(speech, Event("generate", taken.chunk, TRUE))

\* App.tsx handleSpeechEnd up to its await of streamGeminiAPI; the one
\* before it has ended, with the status Ready ("ready") or with an error.
StartResponse ==
  /\ app = "chat"
  /\ engine # NoEngine
  /\ stream \in {"idle", "ready", "error"}
  /\ stream' = "streaming"
  /\ UNCHANGED <<isGenerating, audioQueue, isPlaying, workers, pushed, inFlight, speech,
                 engineVars>>

\* The response streams a chunk that completes eight words.
StreamChunk ==
  /\ stream = "streaming"
  /\ pushed < MaxPushes
  /\ PushAndProcess(audioQueue)
  /\ UNCHANGED <<isGenerating, stream, engineVars>>

\* The response completes, with or without words left to speak;
\* handleSpeechEnd goes on to wait for the queue.
StreamCompletes(rest) ==
  /\ stream = "streaming"
  /\ stream' = "waiting"
  /\ IF rest
     THEN /\ pushed < MaxPushes
          /\ PushAndProcess(audioQueue)
     ELSE UNCHANGED <<audioQueue, isPlaying, workers, pushed, inFlight, speech>>
  /\ UNCHANGED <<isGenerating, engineVars>>

\* streamGeminiAPI rejects: handleSpeechEnd reports the error and ends.
StreamFails ==
  /\ stream = "streaming"
  /\ stream' = "error"
  /\ UNCHANGED <<isGenerating, audioQueue, isPlaying, workers, pushed, inFlight, speech,
                 engineVars>>

\* handleSpeechEnd finds the queue empty and nothing playing, sets the status
\* Ready and ends.
WaitEnds ==
  /\ stream = "waiting"
  /\ audioQueue = <<>>
  /\ ~isPlaying
  /\ stream' = "ready"
  /\ UNCHANGED <<isGenerating, audioQueue, isPlaying, workers, pushed, inFlight, speech,
                 engineVars>>

RemoveAt(seq, w) == [i \in 1..Len(seq) - 1 |-> IF i < w THEN seq[i] ELSE seq[i + 1]]

\* processAudioQueue at its while test, in the invocation w, with n calls of
\* generateSpeech pending and the record sp of the speech: one more chunk, or
\* the end of the invocation.
LoopAgain(w, n, sp) ==
  IF audioQueue # <<>>
  THEN /\ audioQueue' = Shift(audioQueue).rest
       /\ workers' = [workers EXCEPT
                        ![w] = [pc |-> "generating", chunk |-> Shift(audioQueue).chunk]]
       /\ inFlight' = n + 1
       /\ speech' = Append(sp, Event("generate", Shift(audioQueue).chunk, TRUE))
       /\ UNCHANGED isPlaying
  ELSE /\ workers' = RemoveAt(workers, w)
       /\ isPlaying' = FALSE
       /\ inFlight' = n
       /\ speech' = sp
       /\ UNCHANGED audioQueue

\* The generateSpeech awaited by invocation w settles: playAudio is awaited,
\* or the catch logs the error and the loop goes on.
SpeechSettlesEndsLoop(w, ok) ==
  /\ w \in 1..Len(workers)
  /\ workers[w].pc = "generating"
  /\ inFlight' = inFlight - 1
  /\ speech' = Append(speech, Event("generated", workers[w].chunk, ok))
  /\ IF ok
     THEN /\ workers' = [workers EXCEPT ![w].pc = "playing"]
          /\ UNCHANGED <<audioQueue, isPlaying>>
     ELSE /\ workers' = RemoveAt(workers, w)
          /\ isPlaying' = FALSE
          /\ UNCHANGED audioQueue
  /\ UNCHANGED <<isGenerating, stream, pushed, engineVars>>

SpeechSettles(w, ok) ==
  /\ w \in 1..Len(workers)
  /\ workers[w].pc = "generating"
  /\ IF ok
     THEN /\ workers' = [workers EXCEPT ![w].pc = "playing"]
          /\ inFlight' = inFlight - 1
          /\ speech' = speech \o <<Event("generated", workers[w].chunk, TRUE),
                                    Event("play", workers[w].chunk, TRUE)>>
          /\ UNCHANGED <<audioQueue, isPlaying>>
     ELSE LoopAgain(w, inFlight - 1,
                    Append(speech, Event("generated", workers[w].chunk, FALSE)))
  /\ UNCHANGED <<isGenerating, stream, pushed, engineVars>>

\* The playAudio awaited by invocation w settles, by the end of the playback
\* or by an error, which the catch logs.
PlaybackSettles(w, ok) ==
  /\ w \in 1..Len(workers)
  /\ workers[w].pc = "playing"
  /\ LoopAgain(w, inFlight, Append(speech, Event("played", workers[w].chunk, ok)))
  /\ UNCHANGED <<isGenerating, stream, pushed, engineVars>>

\* App.tsx clearHistory: audioQueueRef.current = []
ClearHistory ==
  /\ app = "chat"
  /\ audioQueue' = <<>>
  /\ UNCHANGED <<isGenerating, isPlaying, workers, stream, pushed, inFlight, speech,
                 engineVars>>

InitApp == \E a \in Apps : ReadyAt(a)

NextApp ==
  \/ ClickGenerate
  \/ GenerateSettles
  \/ \E id \in StyleChoices : HandleVoiceStyleChange(id)
  \/ \E ok \in BOOLEAN : StyleLoadSettles(ok)
  \/ \E ok \in BOOLEAN : DefaultRestoreSettles(ok)
  \/ StartResponse
  \/ StreamChunk
  \/ \E rest \in BOOLEAN : StreamCompletes(rest)
  \/ StreamFails
  \/ WaitEnds
  \/ \E w \in 1..MaxPushes, ok \in BOOLEAN : SpeechSettles(w, ok)
  \/ \E w \in 1..MaxPushes, ok \in BOOLEAN : PlaybackSettles(w, ok)
  \/ ClearHistory

SpecApp == InitApp /\ [][NextApp]_vars

\* Every generateSpeech and playAudio settles in the end, and the timer of
\* the wait loop of handleSpeechEnd keeps firing.
FairApp ==
  /\ WF_vars(\E w \in 1..MaxPushes, ok \in BOOLEAN : SpeechSettles(w, ok))
  /\ WF_vars(\E w \in 1..MaxPushes, ok \in BOOLEAN : PlaybackSettles(w, ok))
  /\ WF_vars(WaitEnds)

SpecAppFair == InitApp /\ [][NextApp]_vars /\ FairApp

\* --------------------------------------------------------------- SpecChat
\* VoiceChatEngine: callGeminiAPI, streamGeminiAPI and clearHistory.  A
\* response is a text over '{', '}', the double quote (written q), a letter
\* and, between its objects, a comma; an object holds objects and strings, and
\* its strings stand for the text parts of its first candidate.

\* What the engine's chat methods leave alone.
nonChatVars == <<chunkVars, textVars, latentVars, wavVars, appVars, initVars, callVars,
                 wordVars>>

\* JSON.parse reading a text: the nesting depth, whether it is inside a
\* string, and whether the text was well formed so far, the value having
\* closed at the character `closed` (0: not yet).
RECURSIVE JsonScan(_, _, _)
JsonScan(buf, i, st) ==
  IF i > Len(buf) THEN st
  ELSE LET ch == buf[i]
           next ==
             IF st.inStr
             THEN [st EXCEPT !.inStr = (ch # "q")]
             ELSE IF st.closed # 0 THEN [st EXCEPT !.ok = FALSE]
             ELSE IF ch = "q" THEN [st EXCEPT !.inStr = TRUE, !.ok = st.ok /\ st.depth > 0]
             ELSE IF ch = "{" THEN [st EXCEPT !.depth = st.depth + 1]
             ELSE IF ch = "}"
             THEN [st EXCEPT !.depth = st.depth - 1,
                             !.ok = st.ok /\ st.depth > 0,
                             !.closed = IF st.depth = 1 THEN i ELSE 0]
             ELSE [st EXCEPT !.ok = FALSE]
       IN  JsonScan(buf, i + 1, next)

ScanStart == [depth |-> 0, inStr |-> FALSE, ok |-> TRUE, closed |-> 0]

\* JSON.parse(jsonBuffer) returns: the buffer is one object.
JsonParses(buf) ==
  LET st == JsonScan(buf, 1, ScanStart)
  IN  st.ok /\ ~st.inStr /\ st.closed = Len(buf) /\ buf # <<>>

\* The strings of a parsed object, in order.
RECURSIVE StringsOf(_, _, _, _)
StringsOf(buf, i, cur, inStr) ==
  IF i > Len(buf) THEN <<>>
  ELSE IF inStr
  THEN IF buf[i] = "q" THEN <<cur>> \o StringsOf(buf, i + 1, <<>>, FALSE)
       ELSE StringsOf(buf, i + 1, Append(cur, buf[i]), TRUE)
  ELSE StringsOf(buf, i + 1, <<>>, buf[i] = "q")

\* for (const part of candidate.content.parts) if (part.text) { chunkText =
\* part.text; break }: the first text that is not empty, or none (<<>>).
PartTextLast(buf) ==
  LET texts == SelectSeq(StringsOf(buf, 1, <<>>, FALSE), LAMBDA t : t # <<>>)
  IN  IF texts = <<>> THEN <<>> ELSE texts[Len(texts)]

PartText(buf) ==
  LET texts == SelectSeq(StringsOf(buf, 1, <<>>, FALSE), LAMBDA t : t # <<>>)
  IN  IF texts = <<>> THEN <<>> ELSE Head(texts)

\* The body of the loop over the characters of a decoded chunk; st is
\* [loc, out]: the locals, and the texts handed to onChunk.
ParseChar(st, ch) ==
  LET loc == st.loc
      braceCount == IF ch = "{" THEN loc.braceCount + 1 ELSE loc.braceCount
      inJson == loc.inJson \/ ch = "{"
      jsonBuffer == IF inJson THEN Append(loc.jsonBuffer, ch) ELSE loc.jsonBuffer
  IN  IF ch # "}"
      THEN [st EXCEPT !.loc = [loc EXCEPT !.braceCount = braceCount, !.inJson = inJson,
                                          !.jsonBuffer = jsonBuffer]]
      ELSE IF ~(braceCount - 1 = 0 /\ inJson)
      THEN [st EXCEPT !.loc = [loc EXCEPT !.braceCount = braceCount - 1,
                                          !.inJson = inJson, !.jsonBuffer = jsonBuffer]]
      ELSE LET chunkText_ == IF JsonParses(jsonBuffer) THEN PartText(jsonBuffer) ELSE <<>>
           IN  [loc |-> [jsonBuffer |-> <<>>, braceCount |-> 0, inJson |-> FALSE,
                         accumulatedText |-> loc.accumulatedText \o chunkText_],
                out |-> IF chunkText_ # <<>> THEN Append(st.out, chunkText_) ELSE st.out]

\* for (let i = 0; i < chunk.length; i++) ...
RECURSIVE ParseChunk(_, _)
ParseChunk(st, chunk) ==
  IF chunk = <<>> THEN st ELSE ParseChunk(ParseChar(st, Head(chunk)), Tail(chunk))

\* if (this.conversationHistory.length > 10) ... = ....slice(-10)
HistoryLimit == 10

KeepFirst(h) == IF Len(h) > HistoryLimit THEN SubSeq(h, 1, HistoryLimit) ELSE h

KeepLast(h) == IF Len(h) > HistoryLimit THEN SubSeq(h, Len(h) - HistoryLimit + 1, Len(h)) ELSE h

\* push({ role: 'user', text }); push({ role: 'assistant', text: ... }); the limit
Exchange(h, text, reply) ==
  KeepLast(h \o <<[role |-> "user", text |-> text], [role |-> "assistant", text |-> reply]>>)

Entry(e, text) == [e |-> e, text |-> text]

\* callGeminiAPI(text) up to its await of fetch, or its throw for want of a key.
CallGeminiAPI ==
  /\ app = "chat"
  /\ gReq = 0
  /\ asked < MaxRequests
  /\ asked' = asked + 1
  /\ gReq' = IF apiKey THEN asked + 1 ELSE 0
  /\ UNCHANGED <<apiKey, conversationHistory, completed, sReq, parse, chatLog, nonChatVars>>

\* The response of callGeminiAPI arrives: the reply is recorded; or the fetch
\* rejects, the response is not OK, or it holds no candidate text to read.
GeminiSettles(ok, reply) ==
  /\ gReq # 0
  /\ gReq' = 0
  /\ IF ok
     THEN /\ conversationHistory' = Exchange(conversationHistory, gReq, reply)
          /\ completed' = Append(completed, [user |-> gReq, assistant |-> reply])
     ELSE UNCHANGED <<conversationHistory, completed>>
  /\ UNCHANGED <<apiKey, asked, sReq, parse, chatLog, nonChatVars>>

\* streamGeminiAPI(text, onChunk, onComplete) up to its await of fetch, or
\* its throw for want of a key.
StreamGeminiAPI ==
  /\ app = "chat"
  /\ sReq.pc \in {"idle", "done", "failed"}
  /\ asked < MaxRequests
  /\ asked' = asked + 1
  /\ sReq' = [pc |-> IF apiKey THEN "fetch" ELSE "failed", text |-> asked + 1,
              body |-> <<>>, pos |-> 0]
  /\ parse' = NoParse
  /\ chatLog' = <<>>
  /\ UNCHANGED <<apiKey, conversationHistory, completed, gReq, nonChatVars>>

\* The fetch settles: with a response that is OK and has the given body, or
\* by rejecting, with a response that is not OK, or with one without a body.
FetchSettles(ok, body) ==
  /\ sReq.pc = "fetch"
  /\ sReq' = IF ok THEN [sReq EXCEPT !.pc = "reading", !.body = body]
                   ELSE [sReq EXCEPT !.pc = "failed"]
  /\ UNCHANGED <<apiKey, conversationHistory, completed, asked, gReq, parse, chatLog,
                 nonChatVars>>

\* A read of the body delivers its next n characters, which are parsed.
StreamRead(n) ==
  /\ sReq.pc = "reading"
  /\ n \in 1..(Len(sReq.body) - sReq.pos)
  /\ LET st == ParseChunk([loc |-> parse, out |-> <<>>],
                          SubSeq(sReq.body, sReq.pos + 1, sReq.pos + n))
     IN  /\ parse' = st.loc
         /\ chatLog' = chatLog \o [i \in 1..Len(st.out) |-> Entry("chunk", st.out[i])]
  /\ sReq' = [sReq EXCEPT !.pos = sReq.pos + n]
  /\ UNCHANGED <<apiKey, conversationHistory, completed, asked, gReq, nonChatVars>>

\* A read rejects: the request was aborted or the connection failed.
StreamReadFailsRecording ==
  /\ sReq.pc = "reading"
  /\ sReq' = [sReq EXCEPT !.pc = "failed"]
  /\ conversationHistory' = Exchange(conversationHistory, sReq.text, parse.accumulatedText)
  /\ UNCHANGED <<apiKey, completed, asked, gReq, parse, chatLog, nonChatVars>>

StreamReadFails ==
  /\ sReq.pc = "reading"
  /\ sReq' = [sReq EXCEPT !.pc = "failed"]
  /\ UNCHANGED <<apiKey, conversationHistory, completed, asked, gReq, parse, chatLog,
                 nonChatVars>>

\* The body is read to its end: without any text the request throws, else
\* the exchange is recorded and onComplete is called.
StreamEnds ==
  /\ sReq.pc = "reading"
  /\ sReq.pos = Len(sReq.body)
  /\ IF parse.accumulatedText = <<>>
     THEN /\ sReq' = [sReq EXCEPT !.pc = "failed"]
          /\ UNCHANGED <<conversationHistory, completed, chatLog>>
     ELSE /\ sReq' = [sReq EXCEPT !.pc = "done"]
          /\ conversationHistory' =
               Exchange(conversationHistory, sReq.text, parse.accumulatedText)
          /\ completed' = Append(completed, [user |-> sReq.text,
                                             assistant |-> parse.accumulatedText])
          /\ chatLog' = chatLog \o <<Entry("history", parse.accumulatedText),
                                    Entry("complete", parse.accumulatedText)>>
  /\ UNCHANGED <<apiKey, asked, gReq, parse, nonChatVars>>

\* VoiceChatEngine.clearHistory
ClearChatHistory ==
  /\ app = "chat"
  /\ conversationHistory' = <<>>
  /\ completed' = <<>>
  /\ UNCHANGED <<apiKey, asked, gReq, sReq, parse, chatLog, nonChatVars>>

\* The objects a response is made of: every well-formed one that is short.
ObjectAlphabet == {"{", "}", "q", "a"}

Objects ==
  {o \in UNION {[1..k -> ObjectAlphabet] : k \in 2..MaxObjectLen} : JsonParses(o)}

Pieces == Objects \cup {<<",">>}

RECURSIVE FlattenPieces(_)
FlattenPieces(ps) == IF ps = <<>> THEN <<>> ELSE Head(ps) \o FlattenPieces(Tail(ps))

\* The responses a pending fetch can deliver: some objects, with or without
\* commas between them.
Bodies ==
  IF sReq.pc = "fetch"
  THEN {FlattenPieces(ps) : ps \in UNION {[1..k -> Pieces] : k \in 0..MaxObjects}}
  ELSE {}

\* The responses followed along with the history: two objects with text, one
\* object without any.
ChatBodies == {<<"{", "q", "a", "q", "}", ",", "{", "q", "a", "q", "}">>, <<"{", "q", "q", "}">>}

Replies == {<<"r">>}

InitChat == \E key \in BOOLEAN : ReadyKeyed("chat", key)

\* The reads of SpecChat deliver one object, or what is left of the body.
ObjectRead == IF Len(sReq.body) - sReq.pos < 6 THEN Len(sReq.body) - sReq.pos ELSE 6

NextChat ==
  \/ CallGeminiAPI
  \/ \E ok \in BOOLEAN, reply \in Replies : GeminiSettles(ok, reply)
  \/ StreamGeminiAPI
  \/ \E ok \in BOOLEAN, body \in ChatBodies : FetchSettles(ok, body)
  \/ StreamRead(ObjectRead)
  \/ StreamReadFails
  \/ StreamEnds
  \/ ClearChatHistory

SpecChat == InitChat /\ [][NextChat]_vars

\* ------------------------------------------------------------- SpecStream
\* One streamGeminiAPI, with every response and its reads cut anywhere, each
\* delivering at most as much as the longest object.
InitStream == ReadyKeyed("chat", TRUE) /\ engine.sampleRate = 5

NextStream ==
  \/ asked = 0 /\ StreamGeminiAPI
  \/ \E ok \in BOOLEAN, body \in Bodies : FetchSettles(ok, body)
  \/ \E n \in 1..MaxObjectLen : StreamRead(n)
  \/ StreamReadFails
  \/ StreamEnds

SpecStream == InitStream /\ [][NextStream]_vars

\* -------------------------------------------------------------- SpecWords
\* App.tsx handleSpeechEnd: the callbacks it hands to streamGeminiAPI, which
\* split the streamed response into chunks of words for the audio queue.  A
\* response is a text of words of the letter w, spaces and line feeds.

\* String.split(' ') from position i on, the piece in hand starting at st.
RECURSIVE SplitOnSpaceFrom(_, _, _)
SplitOnSpaceFrom(s, st, i) ==
  IF i > Len(s) THEN <<SubSeq(s, st, Len(s))>>
  ELSE IF s[i] = " "
       THEN <<SubSeq(s, st, i - 1)>> \o SplitOnSpaceFrom(s, i + 1, i + 1)
       ELSE SplitOnSpaceFrom(s, st, i + 1)

\* wordBuffer.split(' ')
SplitOnSpace(s) == SplitOnSpaceFrom(s, 1, 1)

\* Array.join(' ')
RECURSIVE JoinWithSpace(_)
JoinWithSpace(ws) ==
  IF ws = <<>> THEN <<>>
  ELSE IF Len(ws) = 1 THEN ws[1]
       ELSE ws[1] \o <<" ">> \o JoinWithSpace(Tail(ws))

\* words.slice(0, 8).join(' ')
SpeechChunk(words) == JoinWithSpace(SubSeq(words, 1, WordsPerChunk))

\* words.slice(8).join(' ')
RestOfWords(words) == JoinWithSpace(SubSeq(words, WordsPerChunk + 1, Len(words)))

\* An entry of the record of the pushes.
Pushed(text, at) == [text |-> text, at |-> at]

\* handleSpeechEnd up to its await of streamGeminiAPI, the response to come
\* being resp.
HandleSpeechEnd(resp) ==
  /\ app = "chat"
  /\ engine # NoEngine
  /\ stream \in {"idle", "ready", "error"}
  /\ stream' = "streaming"
  /\ incoming' = resp
  /\ fullResponse' = <<>>
  /\ wordBuffer' = <<>>
  /\ pushLog' = <<>>
  /\ UNCHANGED <<isGenerating, audioQueue, isPlaying, workers, pushed, inFlight, speech,
                 chunkVars, textVars, latentVars, wavVars, initVars, callVars, chatVars>>

\* The callback onChunk, called with the next n characters of the response.
OnChunk(n) ==
  /\ stream = "streaming"
  /\ n \in 1..Len(incoming)
  /\ incoming' = SubSeq(incoming, n + 1, Len(incoming))
  /\ fullResponse' = fullResponse \o SubSeq(incoming, 1, n)
  /\ LET words == SplitOnSpace(wordBuffer \o SubSeq(incoming, 1, n))
     IN  IF Len(words) >= WordsPerChunk
         THEN /\ pushed < MaxPushes
              /\ pushLog' = Append(pushLog, Pushed(SpeechChunk(words), "chunk"))
              /\ wordBuffer' = RestOfWords(words)
              /\ PushAndProcess(audioQueue)
         ELSE /\ wordBuffer' = wordBuffer \o SubSeq(incoming, 1, n)
              /\ UNCHANGED <<pushLog, audioQueue, isPlaying, workers, pushed, inFlight,
                             speech>>
  /\ UNCHANGED <<isGenerating, stream, chunkVars, textVars, latentVars, wavVars,
                 initVars, callVars, chatVars>>

\* The callback onComplete, called when the response has ended;
\* handleSpeechEnd goes on to wait for the queue.
OnComplete ==
  /\ stream = "streaming"
  /\ incoming = <<>>
  /\ stream' = "waiting"
  /\ IF Trim(wordBuffer) # <<>>
     THEN /\ pushed < MaxPushes
          /\ pushLog' = Append(pushLog, Pushed(Trim(wordBuffer), "complete"))
          /\ PushAndProcess(audioQueue)
     ELSE UNCHANGED <<pushLog, audioQueue, isPlaying, workers, pushed, inFlight, speech>>
  /\ UNCHANGED <<isGenerating, incoming, fullResponse, wordBuffer, chunkVars, textVars,
                 latentVars, wavVars, initVars, callVars, chatVars>>

\* n words w, each followed by a space.
RECURSIVE WordsW(_)
WordsW(n) == IF n = 0 THEN <<>> ELSE <<"w", " ">> \o WordsW(n - 1)

\* How the responses end.
Tails == {<<>>, <<"w">>, <<"w", "w">>, <<" ">>, <<" ", "w">>, <<"\n">>}

Responses == {WordsW(n) \o tail : n \in 0..MaxWords, tail \in Tails}

InitWords == ReadyKeyed("chat", TRUE) /\ engine.sampleRate = 5

NextWords ==
  \/ \E resp \in Responses : stream = "idle" /\ HandleSpeechEnd(resp)
  \/ \E n \in 1..MaxDelivery : OnChunk(n)
  \/ OnComplete
  \/ StreamFails
  \/ WaitEnds
  \/ \E w \in 1..MaxPushes, ok \in BOOLEAN : SpeechSettles(w, ok)
  \/ \E w \in 1..MaxPushes, ok \in BOOLEAN : PlaybackSettles(w, ok)

SpecWords == InitWords /\ [][NextWords]_vars

\* ------------------------------------------- ttsEngine.ts: UnicodeProcessor
\* The copy of the core that the voice chat uses, translated from ttsEngine.ts
\* on its own: its tables, its character classes and its loops.  JavaScript's
\* own operations (normalize, replaceAll, includes, trim, codePointAt) are the
\* ones above.

\* The ranges of its emojiPattern.
EngineEmojiRanges ==
  { <<128512, 128591>>, <<127744, 128511>>, <<128640, 128767>>, <<128768, 128895>>,
    <<128896, 129023>>, <<129024, 129279>>, <<129280, 129535>>, <<129536, 129647>>,
    <<129648, 129791>>, <<9728, 9983>>, <<9984, 10175>>, <<127462, 127487>> }

\* text.replace(emojiPattern, ''), code point by code point (the u flag)
RECURSIVE EngineRemoveEmoji(_)
EngineRemoveEmoji(s) ==
  IF s = <<>> THEN <<>>
  ELSE LET n == IF IsPairAt(s, 1) THEN 2 ELSE 1
           matched == \E r \in EngineEmojiRanges :
                        r[1] <= codePointAt(s, 1) /\ codePointAt(s, 1) <= r[2]
       IN  (IF matched THEN <<>> ELSE SubSeq(s, 1, n))
             \o EngineRemoveEmoji(SubSeq(s, n + 1, Len(s)))

\* Object.entries(replacements), in the order of the keys
EngineReplacements ==
  << <<"<2013>", "-">>, <<"<2011>", "-">>, <<"<2014>", "-">>, <<"<AF>", " ">>,
     <<"_", " ">>, <<"<201C>", "\"">>, <<"<201D>", "\"">>, <<"<2018>", "'">>,
     <<"<2019>", "'">>, <<"<B4>", "'">>, <<"<60>", "'">>, <<"[", " ">>, <<"]", " ">>,
     <<"|", " ">>, <<"/", " ">>, <<"#", " ">>, <<"<2192>", " ">>, <<"<2190>", " ">> >>

\* Object.entries(exprReplacements)
EngineExprReplacements ==
  << << <<"@">>, <<" ", "a", "t", " ">> >>,
     << <<"e", ".", "g", ".", ",">>,
        <<"f", "o", "r", " ", "e", "x", "a", "m", "p", "l", "e", ",", " ">> >>,
     << <<"i", ".", "e", ".", ",">>, <<"t", "h", "a", "t", " ", "i", "s", ",", " ">> >> >>

\* for (const [k, v] of entries) text = text.replaceAll(k, v): the keys and
\* the values of the first table are single code units, so every unit of the
\* text goes through the entries in their order.
RECURSIVE EngineReplaceUnit(_, _)
EngineReplaceUnit(c, entries) ==
  IF entries = <<>> THEN c
  ELSE EngineReplaceUnit(IF c = Head(entries)[1] THEN Head(entries)[2] ELSE c,
                         Tail(entries))

EngineReplaceUnits(s, entries) == [i \in 1..Len(s) |-> EngineReplaceUnit(s[i], entries)]

RECURSIVE EngineReplaceEach(_, _)
EngineReplaceEach(s, entries) ==
  IF entries = <<>> THEN s
  ELSE EngineReplaceEach(ReplaceAll(s, Head(entries)[1], Head(entries)[2]), Tail(entries))

\* The class of its replace of the combining marks, and of the symbols.
EngineDiacritics ==
  {"<0302>", "<0303>", "<0304>", "<0305>", "<0306>", "<0307>", "<0308>", "<030A>",
   "<030B>", "<030C>", "<0327>", "<0328>", "<0329>", "<032A>", "<032B>", "<032C>",
   "<032D>", "<032E>", "<032F>"}

EngineSymbols == {"<2665>", "<2606>", "<2661>", "<A9>", "\\"}

\* The three lines of chained replaces of a space before a mark.
EngineUnspace(s) ==
  LET t1 == ReplaceAll(ReplaceAll(ReplaceAll(s, <<" ", ",">>, <<",">>),
                                  <<" ", ".">>, <<".">>), <<" ", "!">>, <<"!">>)
      t2 == ReplaceAll(ReplaceAll(ReplaceAll(t1, <<" ", "?">>, <<"?">>),
                                  <<" ", ";">>, <<";">>), <<" ", ":">>, <<":">>)
  IN  ReplaceAll(t2, <<" ", "'">>, <<"'">>)

\* while (text.includes(qq)) text = text.replace(qq, q)
RECURSIVE EngineUndouble(_, _)
EngineUndouble(s, q) ==
  IF \E i \in 1..Len(s) - 1 : s[i] = q /\ s[i + 1] = q
  THEN LET i == CHOOSE i \in 1..Len(s) - 1 :
                  /\ s[i] = q /\ s[i + 1] = q
                  /\ \A j \in 1..i - 1 : ~(s[j] = q /\ s[j + 1] = q)
       IN  EngineUndouble(SubSeq(s, 1, i) \o SubSeq(s, i + 2, Len(s)), q)
  ELSE s

\* text.replace(/\s+/g, ' ')
RECURSIVE EngineSquash(_)
EngineSquash(s) ==
  IF s = <<>> THEN <<>>
  ELSE IF IsSpace(Head(s))
       THEN <<" ">> \o EngineSquash(TrimLeft(s))
       ELSE <<Head(s)>> \o EngineSquash(Tail(s))

\* The class of its final test.
EngineClosing ==
  {".", "!", "?", ";", ":", ",", "'", "\"", ")", "]", "}", "<2026>", "<3002>",
   "<300D>", "<300F>", "<3011>", "<3009>", "<300B>", "<203A>", "<BB>"}

\* ttsEngine.ts preprocessText(text)
EnginePreprocessText(text) ==
  LET t1 == EngineRemoveEmoji(Nfkd(text))
      t2 == EngineReplaceUnits(t1, EngineReplacements)
      t3 == SelectSeq(t2, LAMBDA c : c \notin EngineDiacritics)
      t4 == SelectSeq(t3, LAMBDA c : c \notin EngineSymbols)
      t5 == EngineUnspace(EngineReplaceEach(t4, EngineExprReplacements))
      t6 == EngineUndouble(EngineUndouble(EngineUndouble(t5, "\""), "'"), "<60>")
      t7 == Trim(EngineSquash(t6))
  IN  IF t7 # <<>> /\ t7[Len(t7)] \in EngineClosing THEN t7 ELSE t7 \o <<".">>

\* ttsEngine.ts UnicodeProcessor.lengthToMask and TextToSpeech.lengthToMask
EngineLengthToMask(lengths, maxLen) ==
  LET actualMaxLen == IF maxLen # 0 THEN maxLen ELSE MaxOf(lengths)
  IN  [i \in 1..Len(lengths) |->
        <<[j \in 1..actualMaxLen |->
            IF j - 1 < lengths[i] /\ j - 1 < actualMaxLen THEN 1 ELSE 0]>>]

\* ttsEngine.ts UnicodeProcessor.call(textList), the indexer having the
\* entries of the processor above
EngineProcessorCall(indexerLength, texts) ==
  LET processedTexts == [i \in 1..Len(texts) |-> EnginePreprocessText(texts[i])]
      textIdsLengths == [i \in 1..Len(texts) |-> Len(processedTexts[i])]
      maxLen == MaxOf(textIdsLengths)
      row(text) == [j \in 1..maxLen |->
                     IF j > Len(text) THEN 0
                     ELSE IF codePointAt(text, j) < indexerLength
                          THEN IndexerEntry(codePointAt(text, j))
                          ELSE -1]
  IN  [processedTexts |-> processedTexts,
       textIds |-> [i \in 1..Len(texts) |-> row(processedTexts[i])],
       textMask |-> EngineLengthToMask(textIdsLengths, MaxOf(textIdsLengths))]

\* ------------------------------------------------ ttsEngine.ts: chunkText
\* The alternatives of the first lookbehind of its sentence split.
EngineAbbreviations ==
  { <<"M", "r", ".">>, <<"M", "r", "s", ".">>, <<"M", "s", ".">>,
    <<"D", "r", ".">>, <<"P", "r", "o", "f", ".">>, <<"S", "r", ".">>,
    <<"J", "r", ".">>, <<"P", "h", ".", "D", ".">>, <<"e", "t", "c", ".">>,
    <<"e", ".", "g", ".">>, <<"i", ".", "e", ".">>, <<"v", "s", ".">>,
    <<"I", "n", "c", ".">>, <<"L", "t", "d", ".">>, <<"C", "o", ".">>,
    <<"C", "o", "r", "p", ".">>, <<"S", "t", ".">>, <<"A", "v", "e", ".">>,
    <<"B", "l", "v", "d", ".">> }

\* The split regex of the sentences matches at s[i]: after a terminator,
\* behind neither an abbreviation nor a capital initial, at whitespace.
EngineSentenceEndsAt(s, i) ==
  /\ i > 1
  /\ s[i] \in {" ", "\n", "\t", "\r"}
  /\ s[i - 1] \in {".", "!", "?"}
  /\ \A w \in EngineAbbreviations :
       ~(Len(w) <= i - 1 /\ SubSeq(s, i - Len(w), i - 1) = w)
  /\ ~(/\ i > 2
       /\ s[i - 1] = "."
       /\ s[i - 2] \in Upper
       /\ (i > 3 => s[i - 3] \notin Upper \cup Lower \cup Digit \cup {"_"}))

\* paragraph.split(sentence regex): every match is one run of whitespace
RECURSIVE EngineSentences(_, _)
EngineSentences(s, i) ==
  IF i > Len(s) THEN <<s>>
  ELSE IF EngineSentenceEndsAt(s, i)
       THEN <<SubSeq(s, 1, i - 1)>>
              \o EngineSentences(TrimLeft(SubSeq(s, i, Len(s))), 1)
       ELSE EngineSentences(s, i + 1)

\* /\n\s*\n+/ matches from s[i] to s[e]: a line feed, whitespace, line feeds;
\* the longest such e, or 0
EngineBreakEnd(s, i) ==
  LET ends == {e \in (i + 1)..Len(s) :
                 /\ s[i] = "\n"
                 /\ s[e] = "\n"
                 /\ \A j \in i..e : s[j] \in {" ", "\n", "\t", "\r"}}
  IN  IF ends = {} THEN 0 ELSE CHOOSE e \in ends : \A f \in ends : f <= e

\* text.trim().split(/\n\s*\n+/)
RECURSIVE EngineParagraphs(_, _)
EngineParagraphs(s, i) ==
  IF i > Len(s) THEN <<s>>
  ELSE IF EngineBreakEnd(s, i) > 0
       THEN <<SubSeq(s, 1, i - 1)>>
              \o EngineParagraphs(SubSeq(s, EngineBreakEnd(s, i) + 1, Len(s)), 1)
       ELSE EngineParagraphs(s, i + 1)

\* The loop over the sentences of a paragraph, and the push after it.
RECURSIVE EngineSentenceLoop(_, _, _, _)
EngineSentenceLoop(sentences, chunks, currentChunk, maxLen) ==
  IF sentences = <<>>
  THEN IF currentChunk # <<>> THEN Append(chunks, Trim(currentChunk)) ELSE chunks
  ELSE IF Len(currentChunk) + Len(Head(sentences)) + 1 <= maxLen
       THEN EngineSentenceLoop(
              Tail(sentences), chunks,
              (IF currentChunk # <<>> THEN currentChunk \o <<" ">> ELSE <<>>)
                \o Head(sentences),
              maxLen)
       ELSE EngineSentenceLoop(
              Tail(sentences),
              IF currentChunk # <<>> THEN Append(chunks, Trim(currentChunk)) ELSE chunks,
              Head(sentences), maxLen)

\* The loop over the paragraphs.
RECURSIVE EngineParagraphLoop(_, _, _)
EngineParagraphLoop(paragraphs, chunks, maxLen) ==
  IF paragraphs = <<>> THEN chunks
  ELSE IF Trim(Head(paragraphs)) = <<>>
       THEN EngineParagraphLoop(Tail(paragraphs), chunks, maxLen)
       ELSE EngineParagraphLoop(
              Tail(paragraphs),
              EngineSentenceLoop(EngineSentences(Trim(Head(paragraphs)), 1), chunks, <<>>,
                                 maxLen),
              maxLen)

\* ttsEngine.ts TextToSpeech.chunkText(text, maxLen)
EngineChunkText(text, maxLen) ==
  EngineParagraphLoop(
    SelectSeq(EngineParagraphs(Trim(text), 1), LAMBDA p : Trim(p) # <<>>), <<>>, maxLen)

\* --------------------------------- ttsEngine.ts: sampleNoisyLatent, writeWavFile
\* ttsEngine.ts sampleNoisyLatent(duration, sampleRate, baseChunkSize,
\* chunkCompress, latentDim), the random draw giving noise[t] at time index t
EngineLatentLen(a) ==
  (((MaxOf(a.duration) * a.sampleRate) \div 100) + a.baseChunkSize * a.chunkCompress - 1)
    \div (a.baseChunkSize * a.chunkCompress)

EngineSampleNoisyLatent(a, noise) ==
  LET bsz == Len(a.duration)
      wavLenMax == (MaxOf(a.duration) * a.sampleRate) \div 100
      wavLengths == [b \in 1..bsz |-> (a.duration[b] * a.sampleRate) \div 100]
      chunkSize == a.baseChunkSize * a.chunkCompress
      latentLen == (wavLenMax + chunkSize - 1) \div chunkSize
      latentDimVal == a.latentDim * a.chunkCompress
      latentLengths == [b \in 1..bsz |-> (wavLengths[b] + chunkSize - 1) \div chunkSize]
      latentMask == EngineLengthToMask(latentLengths, latentLen)
  IN  [xt |-> [b \in 1..bsz |-> [d \in 1..latentDimVal |-> [t \in 1..latentLen |->
                 noise[t] * latentMask[b][1][t]]]],
       latentMask |-> latentMask]

\* view.setUint32(offset, n, true) and view.setUint16(offset, n, true)
EngineLE(n, bytes) == [i \in 1..bytes |-> (n \div (256 ^ (i - 1))) % 256]

\* The Int16Array of the samples, as bytes.
RECURSIVE EngineSamples(_)
EngineSamples(audioData) ==
  IF audioData = <<>> THEN <<>>
  ELSE LET x == Head(audioData)
           clamped == IF x > 100 THEN 100 ELSE IF x < -100 THEN -100 ELSE x
           v == ((clamped * 32767) \div 100) % 65536
       IN  <<v % 256, v \div 256>> \o EngineSamples(Tail(audioData))

\* ttsEngine.ts writeWavFile(audioData, sampleRate): the bytes of the buffer
EngineWriteWavFile(audioData, sampleRate) ==
  LET numChannels == 1
      bitsPerSample == 16
      byteRate == (sampleRate * numChannels * bitsPerSample) \div 8
      blockAlign == (numChannels * bitsPerSample) \div 8
      dataSize == Len(audioData) * 2
  IN  <<82, 73, 70, 70>> \o EngineLE(36 + dataSize, 4)
        \o <<87, 65, 86, 69>> \o <<102, 109, 116, 32>>
        \o EngineLE(16, 4) \o EngineLE(1, 2) \o EngineLE(numChannels, 2)
        \o EngineLE(sampleRate, 4) \o EngineLE(byteRate, 4)
        \o EngineLE(blockAlign, 2) \o EngineLE(bitsPerSample, 2)
        \o <<100, 97, 116, 97>> \o EngineLE(dataSize, 4)
        \o EngineSamples(audioData)

\* ------------------------------------------- ttsEngine.ts: _infer and call
\* _infer([chunk], ...) of ttsEngine.ts up to its first await: bsz, the
\* tensors of the text ids and of the text mask.
EngineInferBegin(chunk) ==
  LET bsz == Len(<<chunk>>)
      p == EngineProcessorCall(CfgIndexerLength, <<chunk>>)
  IN  [textIds |-> Tensor(Flatten(p.textIds), <<bsz, Len(p.textIds[1])>>),
       textMask |-> Tensor(Flatten(Flatten(p.textMask)),
                           <<bsz, 1, Len(p.textMask[1][1])>>),
       dpOut |-> <<>>, textEmb |-> <<>>, xt |-> <<>>, latentMask |-> <<>>]

\* A backend run of ttsEngine.ts for chunk k that is handed no tensor yet.
EngineRun(m, k) ==
  [m |-> m, chunk |-> k, currentStep |-> <<>>, totalStep |-> <<>>, style |-> NoStyle,
   textIds |-> <<>>, textMask |-> <<>>, textEmb |-> <<>>, latentMask |-> <<>>,
   noisyLatent |-> <<>>, latent |-> <<>>]

\* this.dpOrt.run({text_ids, style_dp, text_mask}) and
\* this.textEncOrt.run({text_ids, style_ttl, text_mask})
EngineTextRun(m, k, style, inf) ==
  [EngineRun(m, k) EXCEPT !.style = style, !.textIds = inf.textIds,
                          !.textMask = inf.textMask]

\* The tensor of xt: [bsz, xt[0].length, xt[0][0].length]
EngineXtTensor(xt) ==
  Tensor(Flatten(Flatten(xt)), <<Len(xt), Len(xt[1]), Len(xt[1][1])>>)

\* What _infer of ttsEngine.ts awaits when its loop variable is s: the
\* estimator's run of the loop body, or the vocoder's run after the loop.
EngineLoopRun(k, s, totalStep, style, inf) ==
  IF s < totalStep
  THEN [EngineRun("est", k) EXCEPT
          !.currentStep = [b \in 1..Len(inf.xt) |-> s],
          !.totalStep = [b \in 1..Len(inf.xt) |-> totalStep],
          !.style = style, !.textMask = inf.textMask, !.textEmb = inf.textEmb,
          !.latentMask = inf.latentMask, !.noisyLatent = EngineXtTensor(inf.xt)]
  ELSE [EngineRun("voc", k) EXCEPT !.latent = EngineXtTensor(inf.xt)]

\* if (progressCallback) progressCallback(step + 1, totalStep), on entering
\* the loop body with the loop variable s
EngineProgress(k, s, totalStep, callback, made) ==
  IF s < totalStep /\ callback
  THEN Append(made, [chunk |-> k, args |-> <<s + 1, totalStep>>])
  ELSE made

\* xt rebuilt from the estimator's output, row by row.
EngineRebuild(xt, denoised) ==
  [b \in 1..Len(xt) |-> [d \in 1..Len(xt[1]) |-> [t \in 1..Len(xt[1][1]) |->
    denoised[(b - 1) * Len(xt[1]) * Len(xt[1][1]) + (d - 1) * Len(xt[1][1]) + t]]]]

\* The body of the loop of call() of ttsEngine.ts over the chunks, after
\* _infer returned.
EngineConcat(wc, dc, wav, dur, silenceDuration, sr) ==
  IF Len(wc) = 0
  THEN [wavCat |-> wav, durCat |-> dur[1]]
  ELSE [wavCat |-> wc \o [i \in 1..((silenceDuration * sr) \div 100) |-> 0] \o wav,
        durCat |-> dc + dur[1] + silenceDuration]

\* call() of ttsEngine.ts, entered with the arguments r on an engine that
\* awaits nothing: what it has done when it first awaits, or returns or throws.
EngineBegins(r) ==
  IF r.style.ttlB # 1
  THEN /\ result' = [kind |-> "rejected", wav |-> NoWav, duration |-> NoWav]
       /\ log' = <<>>
       /\ pc' = "idle"
  ELSE IF r.text.type # "string"
  THEN /\ result' = [kind |-> "invalid", wav |-> NoWav, duration |-> NoWav]
       /\ log' = <<>>
       /\ pc' = "idle"
  ELSE /\ textList' = EngineChunkText(r.text.chars, DefaultMaxLen)
       /\ IF textList' = <<>>
          THEN /\ result' = [kind |-> "ok", wav |-> <<>>, duration |-> <<0>>]
               /\ log' = <<>>
               /\ pc' = "idle"
          ELSE /\ result' = NoResult
               /\ pc' = "dp"
               /\ chunkIdx' = 1
               /\ infer' = EngineInferBegin(textList'[1])
               /\ log' = <<EngineTextRun("dp", 1, r.style, infer')>>

\* The run that call() of ttsEngine.ts awaits resolves: what the engine has
\* done when it next awaits or returns, the backend having answered with the
\* duration d, the text embedding and the denoised latent of the requests,
\* and the waveform wav.
EngineResumes(d, wav) ==
  CASE pc = "dp" ->
         /\ duration' = [i \in 1..Len(<<textList[chunkIdx]>>) |-> (d * 100) \div req.speed]
         /\ infer' = [infer EXCEPT !.dpOut = [i \in 1..Len(<<textList[chunkIdx]>>) |-> d]]
         /\ pc' = "textEnc"
         /\ log' = Append(log, EngineTextRun("textEnc", chunkIdx, req.style, infer))
         /\ UNCHANGED <<chunkIdx, step, wavCat, durCat, result, progress>>
    [] pc = "textEnc" ->
         LET a == [duration |-> duration, sampleRate |-> req.engine.sampleRate,
                   baseChunkSize |-> CfgBaseChunkSize,
                   chunkCompress |-> CfgChunkCompress, latentDim |-> CfgLatentDim]
         IN  /\ \E noise \in [1..EngineLatentLen(a) -> NoiseValues] :
                  LET sampled == EngineSampleNoisyLatent(a, noise)
                  IN  infer' = [infer EXCEPT
                                  !.textEmb = TextEmbOf(chunkIdx),
                                  !.xt = sampled.xt,
                                  !.latentMask =
                                    Tensor(Flatten(Flatten(sampled.latentMask)),
                                           <<Len(<<textList[chunkIdx]>>), 1,
                                             Len(sampled.latentMask[1][1])>>)]
             /\ step' = 0
             /\ progress' = EngineProgress(chunkIdx, 0, req.totalStep, req.callback, progress)
             /\ pc' = EngineLoopRun(chunkIdx, 0, req.totalStep, req.style, infer').m
             /\ log' = Append(log, EngineLoopRun(chunkIdx, 0, req.totalStep, req.style,
                                                 infer'))
             /\ UNCHANGED <<chunkIdx, duration, wavCat, durCat, result>>
    [] pc = "est" ->
         /\ infer' = [infer EXCEPT
                        !.xt = EngineRebuild(
                                 infer.xt,
                                 Denoised(chunkIdx, step, Len(Flatten(Flatten(infer.xt)))))]
         /\ step' = step + 1
         /\ progress' = EngineProgress(chunkIdx, step + 1, req.totalStep, req.callback,
                                       progress)
         /\ pc' = EngineLoopRun(chunkIdx, step + 1, req.totalStep, req.style, infer').m
         /\ log' = Append(log, EngineLoopRun(chunkIdx, step + 1, req.totalStep, req.style,
                                             infer'))
         /\ UNCHANGED <<chunkIdx, duration, wavCat, durCat, result>>
    [] pc = "voc" ->
         LET cat == EngineConcat(wavCat, durCat, wav, duration, req.silence,
                                 req.engine.sampleRate)
         IN  /\ wavCat' = cat.wavCat
             /\ durCat' = cat.durCat
             /\ IF chunkIdx < Len(textList)
                THEN /\ chunkIdx' = chunkIdx + 1
                     /\ pc' = "dp"
                     /\ infer' = EngineInferBegin(textList[chunkIdx + 1])
                     /\ log' = Append(log, EngineTextRun("dp", chunkIdx + 1, req.style,
                                                         infer'))
                     /\ UNCHANGED result
                ELSE /\ pc' = "idle"
                     /\ result' = [kind |-> "ok", wav |-> cat.wavCat,
                                   duration |-> <<cat.durCat>>]
                     /\ UNCHANGED <<chunkIdx, log, infer>>
             /\ UNCHANGED <<step, duration, progress>>

\* ------------------------------------------------------------- SpecCopies
\* The functions of helper.ts and TextToSpeech.call of helper.ts, each on its
\* inputs: the specifications of the functions and of _infer side by side,
\* the texts and the step counts staying below the longest of those.
InitCopies ==
  \/ InitChunk /\ Len(cText) < MaxTextLen
  \/ InitText /\ Len(pArgs.textList[1]) < MaxCodePoints
  \/ InitLatent
  \/ InitWav
  \/ InitCall

\* The function that was handed its input, if one was.
Handed ==
  IF pArgs # <<>> THEN "call"
  ELSE IF lArgs # <<>> THEN "sampleNoisyLatent"
  ELSE IF wArgs # <<>> THEN "writeWavFile"
  ELSE IF app = "tts" THEN "chunkText"
  ELSE "none"

NextCopies ==
  \/ Handed = "chunkText" /\ NextChunk
  \/ Handed = "call" /\ NextText
  \/ Handed = "sampleNoisyLatent" /\ NextLatent
  \/ Handed = "writeWavFile" /\ NextWav
  \/ Handed = "none" /\ NextInfer /\ req'.totalStep < MaxStep

SpecCopies == InitCopies /\ [][NextCopies]_vars

\* ------------------------------------------------ the claims, on requests
IsPrefix(a, b) == Len(a) <= Len(b) /\ SubSeq(b, 1, Len(a)) = a

EstimatorCallsOf(k) == SelectSeq(log, LAMBDA c : c.m = "est" /\ c.chunk = k)

VocoderIssued(k) == \E i \in 1..Len(log) : log[i].m = "voc" /\ log[i].chunk = k

\* C1: once the loop of a chunk is over (its vocoder call is issued) with
\* totalStep = N > 0, exactly N estimator calls were issued for the chunk, the
\* i-th with current_step = i - 1 and total_step = N in its one batch row.
EstimatorStepsInOrder ==
  \A k \in 1..Len(textList) :
    (req.totalStep > 0 /\ VocoderIssued(k)) =>
      /\ Len(EstimatorCallsOf(k)) = req.totalStep
      /\ \A i \in 1..Len(EstimatorCallsOf(k)) :
           /\ EstimatorCallsOf(k)[i].currentStep = <<i - 1>>
           /\ EstimatorCallsOf(k)[i].totalStep = <<req.totalStep>>

\* C1 witness: a finished request of two chunks with at least two steps.
EstimatorStepsWitness ==
  /\ result.kind = "ok"
  /\ req.totalStep >= 2
  /\ Len(textList) >= 2
  /\ Len(EstimatorCallsOf(2)) >= 2

\* The models a chunk's calls go to, in the order the claim gives.
ModelsOfChunk(k, n) ==
  <<[m |-> "dp", chunk |-> k], [m |-> "textEnc", chunk |-> k]>>
    \o [i \in 1..n |-> [m |-> "est", chunk |-> k]]
    \o <<[m |-> "voc", chunk |-> k]>>

RECURSIVE ModelsOfChunks(_, _)
ModelsOfChunks(k, n) ==
  IF k = 0 THEN <<>> ELSE ModelsOfChunks(k - 1, n) \o ModelsOfChunk(k, n)

IssuedModels == [i \in 1..Len(log) |-> [m |-> log[i].m, chunk |-> log[i].chunk]]

\* C2: the calls of a request are issued chunk by chunk, in the order duration
\* predictor, text encoder, totalStep estimator calls, vocoder; at most one
\* call is pending at any time, and it is the one issued last, so a chunk's
\* first call is issued only after the vocoder call of the chunk before it
\* has completed.
ChunksStrictlySequential ==
  /\ Cardinality(pending) <= 1
  /\ \A c \in pending : log # <<>> /\ log[Len(log)] = c
  /\ pc # "idle" => pending # {}
  /\ IsPrefix(IssuedModels, ModelsOfChunks(Len(textList), req.totalStep))
  /\ result.kind = "ok" =>
       IssuedModels = ModelsOfChunks(Len(textList), req.totalStep)

\* C2 witness: the second chunk's duration predictor is pending, after the
\* first chunk's vocoder call.
ChunksSequentialWitness ==
  /\ pc = "dp"
  /\ chunkIdx = 2
  /\ req.totalStep >= 2
  /\ VocoderIssued(1)
  /\ pending = {DpCall(2, req.style, infer)}

\* C3 as stated: a style with a batch dimension other than 1 in either tensor
\* is rejected before any chunking and any backend call.
StyleBatchRejectedFirst ==
  (req # NoRequest /\ (req.style.ttlB # 1 \/ req.style.dpB # 1)) =>
    /\ result.kind = "rejected"
    /\ log = <<>>
    /\ pending = {}
    /\ textList = <<>>

\* C4: when a backend run fails, the caller gets neither waveform nor
\* duration and nothing is serialized, no call stays pending, the calls issued
\* are a duplicate-free prefix of the request's calls ending with the failed
\* one, the engine is the one the request started with, and as long as the
\* failure stands no further call is issued and the engine is not replaced.
FailedRequest == result.kind = "failed"

InferenceFailureAborts ==
  /\ [](FailedRequest =>
          /\ pc = "idle"
          /\ pending = {}
          /\ result.wav = NoWav
          /\ result.duration = NoWav
          /\ wavOut = NoWav
          /\ engine = req.engine
          /\ log # <<>>
          /\ IsPrefix(IssuedModels, ModelsOfChunks(Len(textList), req.totalStep)))
  /\ [][(FailedRequest /\ FailedRequest') =>
          (log' = log /\ engine' = engine /\ attempts' = attempts)]_vars

\* C4 witness: the first chunk was synthesized and a call of the second failed.
InferenceFailureWitness ==
  /\ FailedRequest
  /\ chunkIdx = 2
  /\ Len(outs) = 1
  /\ Len(outs[1].wav) > 0
  /\ log[Len(log)].m = "est"

\* Nothing but whitespace, or nothing at all.
IsBlank(chars) == \A i \in 1..Len(chars) : IsSpace(chars[i])

\* C39: a call with a valid style and a text that is empty or all whitespace
\* gets no chunks from chunkText, issues no backend call, and returns an
\* empty waveform with the total duration 0.
BlankTextReturnsEmpty ==
  (/\ req.caller # "none"
   /\ ~StyleRejected(req.style)
   /\ req.text.type = "string"
   /\ IsBlank(req.text.chars)) =>
    /\ chunkText(req.text.chars, DefaultMaxLen) = <<>>
    /\ textList = <<>>
    /\ log = <<>>
    /\ pending = {}
    /\ pc = "idle"
    /\ result = [kind |-> "ok", wav |-> <<>>, duration |-> <<0>>]

\* C39 witness: a call with a text of spaces and a blank line has returned.
BlankTextWitness ==
  /\ req.caller # "none"
  /\ ~StyleRejected(req.style)
  /\ req.text = Str(<<" ", "\n", "\n", " ">>)
  /\ result.kind = "ok"

\* ------------------------------------------- the claims, on the sentences
\* The text of one paragraph: no blank line in it and something other than
\* whitespace.
OneParagraph(text) ==
  /\ Trim(text) # <<>>
  /\ Len(SplitParagraphs(Trim(text))) = 1

\* The text is its sentences joined by single spaces.
SingleSpaced(text) == text = JoinSentences(SentencesOf(text))

EndsInTerminator(s) == s # <<>> /\ IsTerminator(s[Len(s)])

RECURSIVE GreedyChunks(_, _, _, _)
GreedyChunks(sentences, cur, first, limit) ==
  IF sentences = <<>>
  THEN IF cur = <<>> THEN <<>> ELSE <<[chunk |-> cur, first |-> first]>>
  ELSE LET sentence == Head(sentences)
       IN  IF cur = <<>>
           THEN GreedyChunks(Tail(sentences), sentence, sentence, limit)
           ELSE IF Len(cur) + 1 + Len(sentence) <= limit
           THEN GreedyChunks(Tail(sentences), cur \o <<" ">> \o sentence, first, limit)
           ELSE <<[chunk |-> cur, first |-> first]>>
                  \o GreedyChunks(Tail(sentences), sentence, sentence, limit)

GreedyOfParagraph(p, limit) == GreedyChunks(SplitSentences(Trim(p)), <<>>, <<>>, limit)

RECURSIVE GreedyOfParagraphs(_, _)
GreedyOfParagraphs(paragraphs, limit) ==
  IF paragraphs = <<>> THEN <<>>
  ELSE GreedyOfParagraph(Head(paragraphs), limit)
         \o GreedyOfParagraphs(Tail(paragraphs), limit)

ParagraphsOf(text) == SelectSeq(SplitParagraphs(Trim(text)), LAMBDA p : Trim(p) # <<>>)

\* C31: the chunks are those of the greedy rule: within a paragraph a
\* sentence joins the current chunk behind one space whenever the total stays
\* within the limit, and only otherwise is the chunk flushed and a new one
\* started with the sentence; so of two consecutive chunks A, B of one
\* paragraph, len(A) + 1 + len(first sentence of B) exceeds the limit; and no
\* chunk is empty.
ChunksAreGreedy ==
  cPc = "done" =>
    /\ cChunks = [i \in 1..Len(GreedyOfParagraphs(ParagraphsOf(cText), cLimit)) |->
                   GreedyOfParagraphs(ParagraphsOf(cText), cLimit)[i].chunk]
    /\ \A k \in 1..Len(ParagraphsOf(cText)) :
         LET g == GreedyOfParagraph(ParagraphsOf(cText)[k], cLimit)
         IN  /\ [i \in 1..Len(g) |-> g[i].chunk]
                  = ParagraphChunks(ParagraphsOf(cText)[k], cLimit)
             /\ \A i \in 1..Len(g) - 1 :
                  Len(g[i].chunk) + 1 + Len(g[i + 1].first) > cLimit
    /\ \A i \in 1..Len(cChunks) : cChunks[i] # <<>>

\* C31 witness: of three sentences the second joined the first, filling the
\* limit exactly, and the third started a new chunk.
ChunksAreGreedyWitness ==
  /\ cPc = "done"
  /\ cText = <<".", " ", ".", " ", ".">>
  /\ cLimit = 3
  /\ cChunks = << <<".", " ", ".">>, <<".">> >>

\* The text before index i of p ends with a listed abbreviation.
AfterAbbreviation(p, i) ==
  \E w \in Abbreviations :
    /\ Len(w) <= i - 1
    /\ \A j \in 1..Len(w) : p[i - 1 - Len(w) + j] = w[j]

\* The text before index i of p ends with a capital letter standing alone
\* (at the start of a word) and a period.
AfterInitial(p, i) ==
  /\ i >= 3
  /\ p[i - 1] = "."
  /\ p[i - 2] \in Upper
  /\ (i = 3 \/ p[i - 3] \notin Upper \cup Lower \cup Digit \cup {"_"})

\* The indices of p where, by the claim, a sentence ends: a whitespace run
\* begins there after '.', '!' or '?', not after an abbreviation or an initial.
BreakStarts(p) ==
  {i \in 2..Len(p) :
     /\ p[i] \in {" ", "\n", "\t", "\r"}
     /\ p[i - 1] \in {".", "!", "?"}
     /\ ~AfterAbbreviation(p, i)
     /\ ~AfterInitial(p, i)}

\* The last index of the whitespace run that begins at index b of p.
BreakEnd(p, b) ==
  CHOOSE e \in b..Len(p) :
    /\ \A j \in b..e : p[j] \in {" ", "\n", "\t", "\r"}
    /\ (e = Len(p) \/ p[e + 1] \notin {" ", "\n", "\t", "\r"})

\* The sentences of p by the claim: the stretches of p between the whitespace
\* runs at BreakStarts, in order.
ClaimedSentences(p) ==
  LET starts == {1} \cup {BreakEnd(p, b) + 1 : b \in BreakStarts(p)}
      EndOf(st) == IF \E b \in BreakStarts(p) : b > st
                   THEN (CHOOSE b \in BreakStarts(p) :
                           b > st /\ \A c \in BreakStarts(p) : c > st => b <= c) - 1
                   ELSE Len(p)
      Nth(n) == CHOOSE st \in starts : Cardinality({u \in starts : u < st}) = n - 1
  IN  [n \in 1..Cardinality(starts) |-> SubSeq(p, Nth(n), EndOf(Nth(n)))]

RECURSIVE ClaimedSentencesOfAll(_)
ClaimedSentencesOfAll(paragraphs) ==
  IF paragraphs = <<>> THEN <<>>
  ELSE ClaimedSentences(Trim(Head(paragraphs))) \o ClaimedSentencesOfAll(Tail(paragraphs))

EstimatorCalls == SelectSeq(log, LAMBDA c : c.m = "est")

ProgressOfChunk(k) == SelectSeq(progress, LAMBDA c : c.chunk = k)

CallsOf(m, k) == SelectSeq(log, LAMBDA c : c.m = m /\ c.chunk = k)

TimeIndex(j, len) == ((j - 1) % len) + 1

\* A latent tensor that is noise under the mask: zero where the mask is zero,
\* a drawn value where it is one, in the shape the mask and the configured
\* latent dimension give.
IsMaskedNoise(latent, mask) ==
  /\ latent.dims = <<1, CfgLatentDim * CfgChunkCompress, mask.dims[3]>>
  /\ Len(latent.data) = latent.dims[2] * latent.dims[3]
  /\ \A j \in 1..Len(latent.data) :
       IF mask.data[TimeIndex(j, mask.dims[3])] = 0
       THEN latent.data[j] = 0
       ELSE latent.data[j] \in NoiseValues

\* C22: for each chunk, the first estimator call gets the masked sampled
\* noise, each later call gets exactly the data the call before it returned,
\* in the same shape, and the vocoder gets exactly the data the last
\* estimator call returned, in that shape.
LatentReplacedWholesale ==
  \A k \in 1..Len(textList) :
    LET calls == EstimatorCallsOf(k)
        vocs == CallsOf("voc", k)
    IN  /\ calls # <<>> => IsMaskedNoise(calls[1].noisyLatent, calls[1].latentMask)
        /\ \A i \in 1..Len(calls) - 1 :
             /\ calls[i + 1].noisyLatent.dims = calls[i].noisyLatent.dims
             /\ calls[i + 1].noisyLatent.data =
                  Denoised(k, i - 1, Len(calls[i].noisyLatent.data))
        /\ (calls # <<>> /\ vocs # <<>>) =>
             /\ vocs[1].latent.dims = calls[Len(calls)].noisyLatent.dims
             /\ vocs[1].latent.data =
                  Denoised(k, Len(calls) - 1, Len(calls[Len(calls)].noisyLatent.data))

\* C22 witness: a chunk with a latent of two time indices went through two
\* estimator calls and reached the vocoder.
LatentReplacedWitness ==
  /\ result.kind = "ok"
  /\ Len(EstimatorCallsOf(1)) = 2
  /\ EstimatorCallsOf(1)[1].noisyLatent.dims[3] = 2
  /\ EstimatorCallsOf(1)[1].noisyLatent.data[1] # EstimatorCallsOf(1)[1].noisyLatent.data[2]

\* C23: the duration _infer works with is the predictor's output divided by
\* the speed; it gives the latent its length and is what _infer returns; at
\* speed 2.0 it is exactly half of what speed 1.0 gives for the same output.
DurationScaledBySpeed ==
  /\ (infer.dpOut # <<>>) =>
       /\ duration[1] * req.speed = infer.dpOut[1] * 100
       /\ req.speed = 200 => 2 * duration[1] = ScaleDuration(infer.dpOut[1], 100)
       /\ req.speed = 100 => duration[1] = infer.dpOut[1]
       /\ infer.latentMask # <<>> =>
            infer.latentMask.dims[3] =
              CeilDiv(FloorSamples(duration[1], req.engine.sampleRate),
                      CfgBaseChunkSize * CfgChunkCompress)
       /\ pc = "est" => log[Len(log)].noisyLatent.dims[3] = infer.latentMask.dims[3]
       /\ pc = "voc" => log[Len(log)].latent.dims[3] = infer.latentMask.dims[3]
  /\ (infer.dpOut # <<>> /\ Len(outs) = chunkIdx) => outs[chunkIdx].duration = duration
  /\ (result.kind = "ok" /\ Len(textList) = 1) => result.duration = duration

\* C23 witness: a request at speed 2.0 returned half of a predicted 0.84 s.
DurationScaledWitness ==
  /\ result.kind = "ok"
  /\ req.speed = 200
  /\ Len(textList) = 1
  /\ infer.dpOut = <<84>>
  /\ result.duration = <<42>>

\* C25: a text that is not a string makes call() throw before anything else
\* happens: it has no chunks, issues no backend call, and delivers an error.
NonStringRejected ==
  (req # NoRequest /\ req.text.type # "string") =>
    /\ result.kind \in {"invalid", "rejected"}
    /\ textList = <<>>
    /\ log = <<>>
    /\ pending = {}
    /\ pc = "idle"
    /\ outs = <<>>

\* C25 witness: a number was handed to call() with a style of batch size 1.
NonStringWitness ==
  /\ req.text.type = "number"
  /\ req.style.ttlB = 1
  /\ result.kind = "invalid"

\* C29: the estimator calls of a chunk all get the same text embedding, style,
\* latent mask, text mask and total_step, which are those computed before the
\* loop (the text mask of the chunk's first two calls, the chunk's text
\* embedding); their current_step differs from call to call.
EstimatorInputsFixed ==
  \A k \in 1..Len(textList) :
    LET calls == EstimatorCallsOf(k)
    IN  \A i \in 1..Len(calls) :
          /\ calls[i].textEmb = TextEmbOf(k)
          /\ calls[i].style = req.style
          /\ calls[i].textMask = CallsOf("dp", k)[1].textMask
          /\ calls[i].textMask = CallsOf("textEnc", k)[1].textMask
          /\ calls[i].latentMask = calls[1].latentMask
          /\ calls[i].totalStep = calls[1].totalStep
          /\ \A j \in 1..Len(calls) :
               i # j => calls[i].currentStep # calls[j].currentStep

\* C29 witness: the second chunk is at its second estimator call.
EstimatorInputsWitness ==
  /\ pc = "est"
  /\ chunkIdx = 2
  /\ Len(EstimatorCallsOf(2)) = 2
  /\ EstimatorCallsOf(2)[2].latentMask.dims[3] >= 1

\* C30: with totalStep = 0 a chunk whose vocoder call was issued had no
\* estimator call and no callback, one duration predictor call and one text
\* encoder call, and one vocoder call, whose latent is the masked noise that
\* was sampled.
ZeroStepsSkipLoop ==
  (req # NoRequest /\ req.totalStep = 0) =>
    /\ EstimatorCalls = <<>>
    /\ progress = <<>>
    /\ \A k \in 1..Len(textList) :
         VocoderIssued(k) =>
           /\ Len(CallsOf("dp", k)) = 1
           /\ Len(CallsOf("textEnc", k)) = 1
           /\ Len(CallsOf("voc", k)) = 1
           /\ LET mask == IF k = chunkIdx THEN infer.latentMask
                           ELSE Tensor([t \in 1..CallsOf("voc", k)[1].latent.dims[3] |-> 1],
                                       <<1, 1, CallsOf("voc", k)[1].latent.dims[3]>>)
              IN  IsMaskedNoise(CallsOf("voc", k)[1].latent, mask)

\* C30 witness: a request with totalStep = 0 and a callback finished two
\* chunks, the second with a latent of two time indices.
ZeroStepsWitness ==
  /\ result.kind = "ok"
  /\ req.totalStep = 0
  /\ req.callback
  /\ Len(textList) = 2
  /\ CallsOf("voc", 2)[1].latent.dims[3] = 2

\* ------------------------------------------------ the claims, on the style
StyledCalls == SelectSeq(log, LAMBDA c : c.m \in {"dp", "textEnc", "est"})

\* C27: every duration predictor, text encoder and estimator call of a request
\* carries the style the request was started with, which was the session's
\* style at that moment; a request in flight keeps its style; and the session's
\* style changes only when a load made by handleVoiceStyleChange settles, never
\* in a step of a synthesis.
StyleSharedNotModified ==
  /\ [](\A i \in 1..Len(StyledCalls) : StyledCalls[i].style = req.style)
  /\ [][req' # req => req'.style = curStyle]_vars
  /\ [][pc # "idle" => req'.style = req.style]_vars
  /\ [][curStyle' # curStyle =>
          /\ styleLoad.pc \in {"loading", "restoring"}
          /\ styleLoad'.pc = "idle"
          /\ UNCHANGED callVars]_vars
  /\ [][callVars' # callVars => curStyle' = curStyle]_vars

\* C27 witness: the style was replaced while a request was in flight, and the
\* request went on to an estimator call.
StyleReplacedInFlightWitness ==
  /\ pc = "est"
  /\ chunkIdx = 2
  /\ curStyle = LoadedStyle("F1", 1)
  /\ req.style = LoadedStyle("M1", 1)
  /\ log[Len(log)].style = req.style

\* --------------------------------------------- the claims, on the callers
\* C26: at most one generateSpeech is pending at any time, on either page: a
\* new one starts only when none is pending.
OneSynthesisInFlight ==
  /\ [](inFlight <= 1)
  /\ [][inFlight' > inFlight => inFlight = 0]_vars

\* C26 witness: in the voice chat a second chunk arrived and a third was
\* queued and cleared while the speech of the first was being generated, and
\* the response has completed.
OneSynthesisWitness ==
  /\ app = "chat"
  /\ inFlight = 1
  /\ pushed = 3
  /\ audioQueue = <<>>
  /\ stream = "waiting"
  /\ workers = <<[pc |-> "generating", chunk |-> 1]>>

\* C40: when handleVoiceStyleChange finishes, isLoading is false and the
\* style the select shows is the style held for synthesis: the newly loaded
\* one after a successful load, the default one after a failed load.
SelectionIsHeldStyle ==
  [][(styleLoad.pc # "idle" /\ styleLoad'.pc = "idle") =>
       /\ ~isLoading'
       /\ voiceStylePath' = curStyle'.id
       /\ IF styleLoad.pc = "loading"
          THEN curStyle'.id = styleLoad.id
          ELSE voiceStylePath' = DefaultVoiceStyle /\ curStyle'.id = DefaultVoiceStyle]_vars

\* The chunks of the events e of the record of the speech, in order.
ChunksOf(e) ==
  LET sel == SelectSeq(speech, LAMBDA x : x.e = e)
  IN  [i \in 1..Len(sel) |-> sel[i].chunk]

Increasing(seq) == \A i \in 1..Len(seq) - 1 : seq[i] < seq[i + 1]

\* The event ended the work on a chunk: its playback ended or failed, or its
\* synthesis failed.
EndsChunk(x) == x.e = "played" \/ (x.e = "generated" /\ ~x.ok)

\* C36: the queue of the voice chat is served first-in first-out by one
\* consumer: the chunks are synthesized and played in the order of their
\* pushes, the synthesis of a chunk starts only when the playback of the one
\* before it has ended or failed (or its synthesis failed), never do two
\* processAudioQueue loops run, and isPlaying is true exactly while one runs.
QueueServedInOrder ==
  /\ Len(workers) <= 1
  /\ isPlaying <=> workers # <<>>
  /\ Increasing(audioQueue)
  /\ Increasing(ChunksOf("generate"))
  /\ Increasing(ChunksOf("play"))
  /\ \A i \in 2..Len(speech) :
       /\ speech[i].e = "generate" => EndsChunk(speech[i - 1])
       /\ speech[i].e = "play" =>
            speech[i - 1] = Event("generated", speech[i].chunk, TRUE)

\* C36 witness: after the first chunk was played and the synthesis of the
\* second failed, the third is being synthesized.
QueueServedWitness ==
  /\ app = "chat"
  /\ speech = <<Event("generate", 1, TRUE), Event("generated", 1, TRUE),
                Event("play", 1, TRUE), Event("played", 1, TRUE),
                Event("generate", 2, TRUE), Event("generated", 2, FALSE),
                Event("generate", 3, TRUE)>>

InQueue(c) == \E i \in 1..Len(audioQueue) : audioQueue[i] = c

Attempted(c) == \E i \in 1..Len(speech) : speech[i] = Event("generate", c, TRUE)

\* clearHistory took the chunk off the queue.
Cleared(c) == c <= pushed /\ ~InQueue(c) /\ ~Attempted(c)

\* C37: with every generateSpeech and playAudio settling in the end, every
\* chunk on the queue is in the end taken and attempted unless clearHistory
\* removes it; a failed synthesis or playback does not stop the loop while
\* chunks are queued, and the loop leaves isPlaying false when the queue is
\* drained; so handleSpeechEnd, waiting for the queue, ends with Ready.
QueueIsDrained ==
  /\ \A c \in 1..MaxPushes + 1 : InQueue(c) ~> (Attempted(c) \/ Cleared(c))
  /\ [](speech # <<>> /\ EndsChunk(speech[Len(speech)]) =>
          audioQueue = <<>> /\ ~isPlaying)
  /\ (stream = "waiting") ~> (stream = "ready")

\* C37 witness: the synthesis of the first chunk failed, the chunks pushed
\* meanwhile were attempted, and handleSpeechEnd has ended with Ready.
QueueIsDrainedWitness ==
  /\ stream = "ready"
  /\ pushed = 3
  /\ speech[2] = Event("generated", 1, FALSE)
  /\ Attempted(2)
  /\ Attempted(3)
  /\ ~isPlaying

\* ------------------------------------------------ the claims, on the chat
\* The texts of the entries e of the record of a stream, in order.
EntriesOf(e) ==
  LET sel == SelectSeq(chatLog, LAMBDA x : x.e = e)
  IN  [i \in 1..Len(sel) |-> sel[i].text]

\* The messages of the exchanges, in order: for each its user message, then
\* the reply.
RECURSIVE MessagesOf(_)
MessagesOf(exchanges) ==
  IF exchanges = <<>> THEN <<>>
  ELSE <<[role |-> "user", text |-> Head(exchanges).user],
         [role |-> "assistant", text |-> Head(exchanges).assistant]>>
         \o MessagesOf(Tail(exchanges))

\* The n most recent entries of a sequence, or all of it.
MostRecent(seq, n) == IF Len(seq) <= n THEN seq ELSE SubSeq(seq, Len(seq) - n + 1, Len(seq))

\* C33: whatever was asked, answered and cleared, the history holds at most
\* 10 messages: the most recent ones of the exchanges completed since the
\* last clearHistory, in order, each user message directly before its reply.
HistoryIsRecentExchanges ==
  /\ Len(conversationHistory) <= 10
  /\ conversationHistory = MostRecent(MessagesOf(completed), 10)
  /\ \A i \in 1..Len(conversationHistory) :
       conversationHistory[i].role = "user" =>
         /\ i < Len(conversationHistory)
         /\ conversationHistory[i + 1].role = "assistant"
         /\ \E j \in 1..Len(completed) :
              completed[j] = [user |-> conversationHistory[i].text,
                              assistant |-> conversationHistory[i + 1].text]
  /\ conversationHistory # <<>> => conversationHistory[1].role = "user"

\* C33 witness: six exchanges were completed, by callGeminiAPI and by
\* streamGeminiAPI, and the first of them has left the history.
HistoryLimitWitness ==
  /\ Len(completed) = 6
  /\ Len(conversationHistory) = 10
  /\ conversationHistory[1].text = completed[2].user
  /\ \E i, j \in 1..6 : completed[i].assistant = <<"r">> /\ completed[j].assistant = <<"a", "a">>

\* A chat request fails in this step: for want of a key, by its fetch or a
\* read, or for want of any text.
RequestFails ==
  \/ asked' = asked + 1 /\ ~apiKey
  \/ sReq.pc # "failed" /\ sReq'.pc = "failed"
  \/ gReq # 0 /\ gReq' = 0 /\ completed' = completed

\* C34: a chat request that fails leaves the history as it is: neither its
\* user message nor any text it received is recorded, even when onChunk was
\* called before the failure.
FailedRequestLeavesHistory ==
  /\ [][RequestFails => conversationHistory' = conversationHistory]_vars
  /\ [](\A i \in 1..Len(conversationHistory) :
          \E j \in 1..Len(completed) :
            IF conversationHistory[i].role = "user"
            THEN conversationHistory[i].text = completed[j].user
            ELSE conversationHistory[i].text = completed[j].assistant)

\* C34 witness: after a completed exchange a second request failed in the
\* middle of its stream, one of its texts having reached onChunk.
FailedRequestWitness ==
  /\ sReq.pc = "failed"
  /\ sReq.pos > 0
  /\ sReq.pos < Len(sReq.body)
  /\ EntriesOf("chunk") = << <<"a">> >>
  /\ Len(conversationHistory) = 2
  /\ conversationHistory[1].text # sReq.text

\* The end of the JSON value that starts at i, braces inside strings not
\* counting (0: it does not end in the text).
RECURSIVE ObjectEnd(_, _, _, _)
ObjectEnd(body, i, depth, inStr) ==
  IF i > Len(body) THEN 0
  ELSE IF inStr THEN ObjectEnd(body, i + 1, depth, body[i] # "q")
  ELSE IF body[i] = "q" THEN ObjectEnd(body, i + 1, depth, TRUE)
  ELSE IF body[i] = "{" THEN ObjectEnd(body, i + 1, depth + 1, FALSE)
  ELSE IF body[i] = "}"
  THEN IF depth = 1 THEN i ELSE ObjectEnd(body, i + 1, depth - 1, FALSE)
  ELSE ObjectEnd(body, i + 1, depth, FALSE)

\* The texts of the complete top-level objects of a text that carry one.
RECURSIVE TextsOfObjects(_, _)
TextsOfObjects(body, i) ==
  IF i > Len(body) THEN <<>>
  ELSE IF body[i] # "{" THEN TextsOfObjects(body, i + 1)
  ELSE LET e == ObjectEnd(body, i, 0, FALSE)
       IN  IF e = 0 THEN <<>>
           ELSE LET text == PartText(SubSeq(body, i, e))
                IN  (IF text # <<>> THEN <<text>> ELSE <<>>) \o TextsOfObjects(body, e + 1)

\* C35: onChunk was called once for each complete top-level object read so
\* far that carries text, in the order of the stream, however the reads cut
\* it; onComplete is called once, after the last onChunk and the update of
\* the history, with all those texts joined; without any text the call fails
\* and onComplete is not called.
ChunksPerObject ==
  sReq.pc \in {"reading", "done"} \/ (sReq.pc = "failed" /\ sReq.body # <<>>) =>
    /\ EntriesOf("chunk") = TextsOfObjects(SubSeq(sReq.body, 1, sReq.pos), 1)
    /\ sReq.pc = "done" =>
         /\ sReq.pos = Len(sReq.body)
         /\ Len(chatLog) >= 3
         /\ SubSeq(chatLog, Len(chatLog) - 1, Len(chatLog))
              = <<Entry("history", FlattenPieces(EntriesOf("chunk"))),
                  Entry("complete", FlattenPieces(EntriesOf("chunk")))>>
         /\ Len(EntriesOf("complete")) = 1
         /\ conversationHistory[Len(conversationHistory)]
              = [role |-> "assistant", text |-> FlattenPieces(EntriesOf("chunk"))]
    /\ sReq.pc # "done" => EntriesOf("complete") = <<>>
    /\ (sReq.pos = Len(sReq.body) /\ TextsOfObjects(sReq.body, 1) = <<>>) => sReq.pc # "done"

\* ----------------------------------------------- the claims, on the words
\* The texts of the pushes made by the callback `at`, in order.
PushedAt(at) == SelectSeq(pushLog, LAMBDA p : p.at = at)

TextsOf(ps) == [i \in 1..Len(ps) |-> ps[i].text]

\* The response is what the chunks pushed before its completion give, joined
\* by single spaces, followed by a remainder: a remainder that is not blank
\* follows them after a single space, and was pushed once, trimmed, at
\* completion; a blank one was not pushed.
JoinsToResponse(k) ==
  LET rest == SubSeq(fullResponse, k + 1, Len(fullResponse))
      front == SubSeq(fullResponse, 1, k)
      before == TextsOf(PushedAt("chunk"))
      final == TextsOf(PushedAt("complete"))
  IN  IF IsBlank(rest)
      THEN /\ final = <<>>
           /\ front = JoinWithSpace(before)
      ELSE /\ final = <<Trim(rest)>>
           /\ front = IF before = <<>> THEN <<>> ELSE JoinWithSpace(before) \o <<" ">>

\* C38: when the stream of a response has completed, the chunks pushed on
\* the audio queue, joined by single spaces in the order of the pushes, are
\* the full text of the response up to the whitespace around the final
\* remainder; every chunk pushed before the completion holds exactly 8 words
\* separated by spaces, and the remainder is pushed once, at completion, if
\* it is not blank.
ChunksJoinToResponse ==
  (stream \in {"waiting", "ready"} /\ app = "chat" /\ fullResponse # <<>>) =>
    /\ \A i \in 1..Len(PushedAt("chunk")) :
         Len(SplitOnSpace(PushedAt("chunk")[i].text)) = WordsPerChunk
    /\ \E k \in 0..Len(fullResponse) : JoinsToResponse(k)

\* ------------------------------------------ the claims, on the two copies
\* A step of helper.ts is the step ttsEngine.ts takes from the same state on
\* the same input and the same answer of the backend.
CopyStep ==
  /\ (cPc = "input" /\ cPc' = "done") => cChunks' = EngineChunkText(cText, cLimit)
  /\ (pPc = "input" /\ pPc' = "done") =>
       pOut' = EngineProcessorCall(pArgs.indexer, pArgs.textList)
  /\ (lPc = "input" /\ lPc' = "done") =>
       \E noise \in [1..EngineLatentLen(lArgs) -> NoiseValues] :
         lOut' = EngineSampleNoisyLatent(lArgs, noise)
  /\ (wPc = "input" /\ wPc' = "done") =>
       wBuffer' = EngineWriteWavFile(wArgs.audioData, wArgs.sampleRate)
  /\ (pc = "idle" /\ req' # req) => EngineBegins(req')
  /\ (pc # "idle" /\ result'.kind # "failed") =>
       EngineResumes(IF pc = "dp" THEN infer'.dpOut[1] ELSE 0,
                     IF pc = "voc" THEN outs'[Len(outs')].wav ELSE <<>>)
  /\ (pc # "idle" /\ result'.kind = "failed") =>
       /\ pc' = "idle"
       /\ log' = log
       /\ result'.wav = NoWav

\* C32: the two copies of the core agree on every input: preprocessText and
\* the tokenizer call, chunkText, the shapes and the mask of
\* sampleNoisyLatent, writeWavFile, and the backend calls and the results of
\* _infer and call of helper.ts are those of their counterparts in
\* ttsEngine.ts.
CopiesAgree == [][CopyStep]_vars

\* C32 witness: a request of two chunks went through both runs of the loop of
\* call() and returned its waveform.
CopiesAgreeWitness ==
  /\ app = "lib"
  /\ result.kind = "ok"
  /\ Len(textList) = 2
  /\ req.totalStep > 0
  /\ Len(log) = 2 * (3 + req.totalStep)
  /\ result.wav # <<>>

\* ------------------------------------------ the claims, on initialization
LoadFailed(n) == \E i \in 1..Len(loadLog) : loadLog[i].attempt = n /\ ~loadLog[i].ok
                                              /\ loadLog[i].asset # "style"

\* C5: the first attempt uses webgpu; a failed first attempt is followed by
\* exactly one more, with wasm; the engine comes whole from the last attempt
\* made; when the fallback attempt fails too, initialization has failed with
\* the error surfaced and no engine; and once an engine is set, no step (no
\* later request either) replaces it or makes another attempt.
BackendChosenOnce ==
  /\ [](/\ IsPrefix(attempts, <<"webgpu", "wasm">>)
        /\ LoadFailed(1) => Len(attempts) = 2
        /\ Len(attempts) = 2 => LoadFailed(1)
        /\ engine # NoEngine =>
             /\ engine.attempt = Len(attempts)
             /\ engine.provider = attempts[Len(attempts)]
             /\ ~LoadFailed(engine.attempt)
        /\ LoadFailed(2) => (initPc = "failed" /\ surfaced /\ engine = NoEngine))
  /\ [][engine # NoEngine => (engine' = engine /\ attempts' = attempts)]_vars

\* C5 witness: the engine came from the fallback attempt and has since
\* served a request.
BackendFallbackWitness ==
  /\ initPc = "ready"
  /\ attempts = <<"webgpu", "wasm">>
  /\ engine.provider = "wasm"
  /\ result.kind = "ok"
  /\ Len(textList) = 2

\* C6 as stated: a failed asset load ends initialization in a surfaced
\* failure, and that asset is not loaded again.
AssetFailureFatalNoRetry ==
  \A i \in 1..Len(loadLog) :
    loadLog[i].cause = "asset" =>
      /\ initPc = "failed"
      /\ surfaced
      /\ \A j \in 1..Len(loadLog) : j > i => loadLog[j].asset # loadLog[i].asset

\* ------------------------------------------- the claims, on concatenation
RECURSIVE SumLen(_)
SumLen(ws) == IF ws = <<>> THEN 0 ELSE Len(Head(ws).wav) + SumLen(Tail(ws))

RECURSIVE SumDur(_)
SumDur(ws) == IF ws = <<>> THEN 0 ELSE Head(ws).duration[1] + SumDur(Tail(ws))

\* w1, then before every later chunk a block of gap zero samples.
RECURSIVE JoinedWithGaps(_, _)
JoinedWithGaps(ws, gap) ==
  IF ws = <<>> THEN <<>>
  ELSE IF Len(ws) = 1 THEN ws[1].wav
  ELSE JoinedWithGaps(SubSeq(ws, 1, Len(ws) - 1), gap)
         \o [i \in 1..gap |-> 0] \o ws[Len(ws)].wav

\* round(silenceDuration * sampleRate)
RoundedGap == (req.silence * req.engine.sampleRate + 50) \div 100

\* floor(silenceDuration * sampleRate)
FlooredGap == (req.silence * req.engine.sampleRate) \div 100

AllSounding(ws) == \A i \in 1..Len(ws) : Len(ws[i].wav) > 0

RECURSIVE FromFirstSounding(_)
FromFirstSounding(ws) ==
  IF ws = <<>> THEN <<>>
  ELSE IF Len(Head(ws).wav) > 0 THEN ws
  ELSE FromFirstSounding(Tail(ws))

DurationAccumulates ==
  (result.kind = "ok" /\ outs # <<>>) =>
    result.duration = <<SumDur(outs) + (Len(outs) - 1) * req.silence>>

\* C9 as stated: whoever the caller, the samples serialized are the first
\* floor(sampleRate * totalDuration) of the waveform returned.
SerializedTruncatedToDuration ==
  (result.kind = "ok" /\ req.caller \in {"tts", "chat"}) =>
    wavOut = Slice(result.wav, (req.engine.sampleRate * result.duration[1]) \div 100)

====
